---- MODULE Spec2Model ----
(***************************************************************************)
(* The travel planning workflow of app/services/langgraph_service.py       *)
(* (TravelPlannerWorkflow: a LangGraph state graph of five nodes), the     *)
(* knowledge-base query it calls (app/utils/rag_utils.py) and the part of  *)
(* the Streamlit front end that submits a request and renders the payload  *)
(* (app.py, app/components/results.py).                                    *)
(*                                                                         *)
(* Text is modelled as a sequence of tokens: the empty string is <<>>, an  *)
(* f-string is the concatenation of its literal tokens and its fields, and *)
(* "x in text" is "x is a contiguous part of text".  A Python dict is a    *)
(* function whose domain is its key set.                                   *)
(***************************************************************************)
EXTENDS Integers, Sequences, FiniteSets, TLC

VARIABLES
    serpapi_wrapper,  \* TravelPlannerWorkflow.serpapi_wrapper is set (a key was given)
    tracing_enabled,  \* TravelPlannerWorkflow.tracing_enabled
    vector_store,     \* RAGKnowledgeBase.vector_store: None or Some(chunks)
    race,             \* an initialize call and a query in progress, statement by statement
    orders,           \* RESEARCH and RETRIEVAL applied to one state in both orders
    runs,             \* the generate_travel_plans calls in progress on the one engine
    workflow,         \* get_travel_planner_workflow's cache: "uncached", "None" or "engine"
    construction,     \* history: the outcomes of the steps of the engine's construction
    kb_files,         \* the markdown files in the knowledge base directory
    kb_alive,         \* the RAGKnowledgeBase object: "constructing", "alive" or "failed"
    kb_init,          \* history: the last initialize_knowledge_base call
    kb_query,         \* history: the last query_knowledge_base call since that initialize
    pc,               \* where the submission / generate_travel_plans / the graph stands
    entry,            \* who runs the graph: generate_travel_plans or a direct invoke
    tracer,           \* generate_travel_plans' local tracer is not None
    state,            \* the TravelPlanningState threaded through the graph
    start_state,      \* history: the state this graph run was started with
    given,            \* history: the dict the last node was given, as it is after the node
    escaped,          \* history: the except clause of generate_travel_plans ran
    trace,            \* history: the nodes executed in this run, in order
    failed,           \* history: the nodes whose try block raised in this run
    calls,            \* history: external calls made in this run, per collaborator
    kb_returned,      \* history: what the knowledge-base calls of this run returned
    llm_prompts,      \* history: the prompts handed to the LLM in this run
    llm_returned,     \* history: the contents the LLM returned in this run
    result,           \* the payload generate_travel_plans returned
    rendered          \* the widgets render_travel_plans put on the page

vars == <<serpapi_wrapper, tracing_enabled, vector_store, race, orders, runs, workflow, construction, kb_files, kb_alive, kb_init,
          kb_query, pc, entry, tracer, state,
          start_state, given, escaped, trace, failed, calls, kb_returned, llm_prompts,
          llm_returned, result, rendered>>

(***************************************************************************)
(* Bounds of the model.                                                    *)
(***************************************************************************)
\* the largest number of chunks the vector index holds
MaxChunks == 4

(***************************************************************************)
(* Text, options, dicts, outcomes of external calls.                       *)
(***************************************************************************)
Empty == <<>>

None == <<>>
Some(x) == <<x>>

EmptyDict == [k \in {} |-> Empty]
DictSet(d, key, v) == [k \in DOMAIN d \cup {key} |-> IF k = key THEN v ELSE d[k]]
DictGet(d, key, default) == IF key \in DOMAIN d THEN d[key] ELSE default

\* t is a contiguous part of s (Python: t in s)
Contains(s, t) ==
    \E i \in 0..(Len(s) - Len(t)) : SubSeq(s, i + 1, i + Len(t)) = t

Min(a, b) == IF a <= b THEN a ELSE b

\* an external call returns a value or raises an exception with text str(e)
Ok(v) == [ok |-> TRUE, val |-> v]
Raise(e) == [ok |-> FALSE, val |-> e]

\* str(e) of the exceptions the collaborators raise (it may be empty)
ExceptionTexts == {<<"timeout">>, Empty}

(***************************************************************************)
(* The form: what render_travel_form can submit.                           *)
(***************************************************************************)
Locations == {<<"Tokyo">>, <<"Osaka">>}
Destinations == {<<"Kyoto">>, <<"Sapporo">>}
budget_options == {<<"under_50k_yen">>, <<"50k_to_100k_yen">>}
duration_options == {<<"2_nights_3_days">>}
purpose_options == {<<"sightseeing">>}

\* the keyword arguments main passes to generate_travel_plans
FormData ==
    [current_location : Locations, destination : Destinations,
     budget : budget_options, duration : duration_options,
     purpose : purpose_options]

(***************************************************************************)
(* The collaborators' answers.                                             *)
(***************************************************************************)
WikiOutcomes == {Ok(<<"wikipedia_text">>)} \cup {Raise(e) : e \in ExceptionTexts}
WebOutcomes == {Ok(<<"web_search_text">>)} \cup {Raise(e) : e \in ExceptionTexts}
\* response.content of ChatOpenAI.invoke: any text, the empty text included
LLMOutcomes == {Ok(<<"llm_text">>), Ok(Empty)} \cup {Raise(e) : e \in ExceptionTexts}
\* wait_for_all_tracers() returns or raises
FlushOutcomes == {Ok(Empty)} \cup {Raise(e) : e \in ExceptionTexts}

(***************************************************************************)
(* RAGKnowledgeBase.query_knowledge_base.  The index lists its chunks in   *)
(* the order of their distance to the query; a hit's score is its rank.    *)
(***************************************************************************)
\* the value of top_k the RAG node passes
TopK == 3

\* a document chunk held by the index (Document.page_content, metadata["source"])
Chunk(i) == [page_content |-> <<"chunk_" \o ToString(i)>>, source |-> <<"kb_doc.md">>]

\* the indexes FAISS.from_documents can have built
Indexes == {[i \in 1..n |-> Chunk(i)] : n \in 1..MaxChunks}

\* vector_store.similarity_search_with_score(query, k): (doc, score) pairs or a fault
SearchOutcomes(index, k) ==
    {Ok([i \in 1..Min(k, Len(index)) |-> [doc |-> index[i], score |-> i]])}
        \cup {Raise(e) : e \in ExceptionTexts}

\* the hit returned when vector_store is None
SentinelHit == [content |-> <<"knowledge_base_not_initialized">>, source |-> Empty]

\* the hit returned when the search raised
SearchErrorHit(e) == [content |-> <<"knowledge_base_search_error: ">> \o e, source |-> Empty]

\* one formatted_results entry
FormatHit(r) ==
    [content |-> r.doc.page_content, source |-> r.doc.source, similarity_score |-> r.score]

\* a query_knowledge_base without the test for an unset vector store: the search on
\* None raises inside the try block
query_knowledge_base_unchecked(store, search) ==
    IF store # None /\ search.ok
    THEN [i \in 1..Len(search.val) |-> FormatHit(search.val[i])]
    ELSE <<SearchErrorHit(IF store = None THEN <<"NoneType_has_no_attribute">>
                          ELSE search.val)>>

\* a query_knowledge_base that returns the hits of the search last first
query_knowledge_base_reversed(store, search) ==
    IF store = None THEN <<SentinelHit>>
    ELSE IF search.ok
         THEN [i \in 1..Len(search.val) |->
                  FormatHit(search.val[Len(search.val) + 1 - i])]
         ELSE <<SearchErrorHit(search.val)>>

\* query_knowledge_base(query, top_k) given the outcome of the similarity search
query_knowledge_base(store, search) ==
    IF store = None THEN <<SentinelHit>>
    ELSE IF search.ok THEN [i \in 1..Len(search.val) |-> FormatHit(search.val[i])]
    ELSE <<SearchErrorHit(search.val)>>

\* what the call self.knowledge_base.query_knowledge_base(rag_query, top_k=3) can do:
\* return the knowledge base's answer, or raise when the knowledge base object is one
\* that raises (the except branch of _rag exists for this; RAGKnowledgeBase itself
\* catches every Exception of the search)
KBOutcomes ==
    {Ok(query_knowledge_base(vector_store, s)) :
        s \in IF vector_store = None THEN {Ok(<<>>)} ELSE SearchOutcomes(vector_store[1], TopK)}
    \cup {Raise(e) : e \in ExceptionTexts}


(***************************************************************************)
(* RAGKnowledgeBase.initialize_knowledge_base and the queries made on the  *)
(* knowledge base itself.                                                  *)
(***************************************************************************)
\* the largest top_k a caller of query_knowledge_base passes
MaxTopK == 5

\* the markdown files the directory can hold, in the order glob lists them
KBFiles == <<"kyoto.md", "tokyo.md">>

\* the number of chunks the text splitter cuts a file's document into
NumChunks(file) == IF file = "kyoto.md" THEN 2 ELSE 1

\* the query texts
QueryTexts == {<<"kyoto_trip">>, <<"tokyo_trip">>}

\* glob.glob(os.path.join(self.knowledge_base_path, "*.md"))
Discovered(files) == SelectSeq(KBFiles, LAMBDA f : f \in files)

\* documents: the files TextLoader loaded, the others being logged and skipped
LoadedDocuments(found, loaded) == SelectSeq(found, LAMBDA f : f \in loaded)

\* the chunks of one document
FileChunks(file) ==
    [i \in 1..NumChunks(file) |->
        [page_content |-> <<file \o "_chunk_" \o ToString(i)>>, source |-> <<file>>]]

\* text_splitter.split_documents(documents)
RECURSIVE split_documents(_)
split_documents(documents) ==
    IF documents = <<>> THEN <<>>
    ELSE FileChunks(Head(documents)) \o split_documents(Tail(documents))

\* FAISS.from_documents(chunks, self.embeddings): the index of the chunks, or a fault:
\* the embedding call raised, or there is no chunk (the library sizes the index by the
\* first embedding, so an empty list raises IndexError)
from_documents(chunks, embed) ==
    IF chunks = <<>> THEN Raise(<<"list_index_out_of_range">>)
    ELSE IF ~embed.ok THEN Raise(embed.val)
    ELSE Ok(Some(chunks))

\* the outcomes of the directory scan and of the embedding call
ScanOutcomes == {Ok(Empty), Raise(<<"permission_denied">>)}
EmbedOutcomes == {Ok(Empty), Raise(<<"embedding_api_error">>)}

\* an initialize_knowledge_base that drops the index before it rebuilds it
initialize_knowledge_base_dropping(store, files, scan, loaded, embed) ==
    IF ~scan.ok THEN [store |-> None, raised |-> TRUE]
    ELSE LET found == Discovered(files)
         IN  IF found = <<>> THEN [store |-> store, raised |-> FALSE]
             ELSE LET built == from_documents(
                                   split_documents(LoadedDocuments(found, loaded)), embed)
                  IN  IF built.ok THEN [store |-> built.val, raised |-> FALSE]
                      ELSE [store |-> None, raised |-> TRUE]

\* initialize_knowledge_base: the vector store it leaves and whether it raised
initialize_knowledge_base(store, files, scan, loaded, embed) ==
    IF ~scan.ok THEN [store |-> store, raised |-> TRUE]
    ELSE LET found == Discovered(files)
         IN  IF found = <<>> THEN [store |-> store, raised |-> FALSE]
             ELSE LET built == from_documents(
                                   split_documents(LoadedDocuments(found, loaded)), embed)
                  IN  IF built.ok THEN [store |-> built.val, raised |-> FALSE]
                      ELSE [store |-> store, raised |-> TRUE]

\* the index's chunks in the order of their distance to the query text
Reverse(seq) == [i \in 1..Len(seq) |-> seq[Len(seq) + 1 - i]]
Ranked(index, text) == IF text = <<"kyoto_trip">> THEN index ELSE Reverse(index)

\* whether query_knowledge_base reaches the similarity search (which embeds the query)
consults_embeddings(store) == store # None

\* the values of kb_init and kb_query while no such call was made
NoInit == [called |-> FALSE, found |-> <<>>, loaded |-> {}, scan_ok |-> TRUE,
           embed_ok |-> TRUE, raised |-> FALSE, before |-> None]
NoQuery == [called |-> FALSE, text |-> Empty, top_k |-> 0, before |-> None,
            search |-> Ok(<<>>), hits |-> <<>>, embedded |-> FALSE]


(***************************************************************************)
(* Construction: get_travel_planner_workflow, TravelPlannerWorkflow's and  *)
(* RAGKnowledgeBase's constructors.                                        *)
(***************************************************************************)
\* what a construction meets: the credentials and the tracing flag of the
\* environment, and for each step whether it succeeds
ConstructionInputs(files) ==
    [openai_api_key : BOOLEAN, serpapi_key : BOOLEAN, tracing : BOOLEAN,
     llm_ok : BOOLEAN, wikipedia_ok : BOOLEAN, serpapi_ok : BOOLEAN,
     embeddings_ok : BOOLEAN, scan : ScanOutcomes, loaded : SUBSET files,
     embed : EmbedOutcomes, build_ok : BOOLEAN]

\* RAGKnowledgeBase.__init__: the embedding model, vector_store = None, then
\* initialize_knowledge_base; reached says whether initialize was called
RAGKnowledgeBase_init(files, in) ==
    IF ~in.embeddings_ok THEN [raised |-> TRUE, store |-> None, reached |-> FALSE]
    ELSE LET out == initialize_knowledge_base(None, files, in.scan, in.loaded, in.embed)
         IN  [raised |-> out.raised, store |-> out.store, reached |-> TRUE]

\* a constructor that logs a failing knowledge base and goes on without it
TravelPlannerWorkflow_init_lenient(files, in) ==
    IF ~in.llm_ok \/ ~in.wikipedia_ok \/ (in.serpapi_key /\ ~in.serpapi_ok)
    THEN [raised |-> TRUE, serpapi_wrapper |-> FALSE,
          kb |-> [raised |-> FALSE, store |-> None, reached |-> FALSE], kb_called |-> FALSE]
    ELSE LET kb == RAGKnowledgeBase_init(files, in)
         IN  [raised |-> ~in.build_ok, serpapi_wrapper |-> in.serpapi_key,
              kb |-> kb, kb_called |-> TRUE]

\* TravelPlannerWorkflow.__init__: the LLM, Wikipedia, SerpAPI if it has a key, the
\* knowledge base, the graph; the first step that raises makes the constructor raise
TravelPlannerWorkflow_init(files, in) ==
    IF ~in.llm_ok \/ ~in.wikipedia_ok \/ (in.serpapi_key /\ ~in.serpapi_ok)
    THEN [raised |-> TRUE, serpapi_wrapper |-> FALSE,
          kb |-> [raised |-> FALSE, store |-> None, reached |-> FALSE], kb_called |-> FALSE]
    ELSE LET kb == RAGKnowledgeBase_init(files, in)
         IN  [raised |-> kb.raised \/ ~in.build_ok, serpapi_wrapper |-> in.serpapi_key,
              kb |-> kb, kb_called |-> TRUE]

\* the body of get_travel_planner_workflow: None without the OpenAI key or when the
\* constructor raises, the engine otherwise
get_travel_planner_workflow(files, in) ==
    IF ~in.openai_api_key
    THEN [workflow |-> "None", attempted |-> FALSE,
          made |-> TravelPlannerWorkflow_init(files, in)]
    ELSE LET made == TravelPlannerWorkflow_init(files, in)
         IN  [workflow |-> IF made.raised THEN "None" ELSE "engine",
              attempted |-> TRUE, made |-> made]

\* the value of construction while get_travel_planner_workflow has not run
NoConstruction == [called |-> FALSE, attempted |-> FALSE, key |-> TRUE, steps_ok |-> TRUE]

\* whether every step of a construction succeeds
StepsOk(files, in) ==
    /\ in.llm_ok /\ in.wikipedia_ok /\ (in.serpapi_key => in.serpapi_ok)
    /\ in.embeddings_ok /\ in.build_ok
    /\ in.scan.ok
    /\ Discovered(files) # <<>> => from_documents(
           split_documents(LoadedDocuments(Discovered(files), in.loaded)), in.embed).ok

(***************************************************************************)
(* The graph's nodes: each maps the state it is given, and the outcomes of *)
(* the external calls it makes, to the state it returns ({**state, ...}).  *)
(***************************************************************************)
\* TravelPlanningNodes, and the graph's END
Nodes == {"research", "rag", "plan_generation", "recommendation", "error_handler"}

\* the initial_state generate_travel_plans builds from its arguments
initial_state(form) ==
    [current_location |-> form.current_location,
     destination      |-> form.destination,
     budget           |-> form.budget,
     duration         |-> form.duration,
     purpose          |-> form.purpose,
     research_done    |-> FALSE,
     research_results |-> EmptyDict,
     rag_results      |-> <<>>,
     travel_plan      |-> Empty,
     additional_info  |-> Empty,
     error            |-> Empty,
     next_step        |-> "research"]

\* _research raised: wikipedia.run raised, or the configured web search raised
research_raised(wiki, web) == ~wiki.ok \/ (serpapi_wrapper /\ ~web.ok)

\* str(e) of the exception _research caught
research_exception(wiki, web) == IF ~wiki.ok THEN wiki.val ELSE web.val

\* a _research that stores the wikipedia text it got before the web search raised
research_keeping_partial(s, wiki, web) ==
    IF ~wiki.ok
    THEN [s EXCEPT !.error = <<"research_error: ">> \o wiki.val,
                   !.next_step = "error_handler"]
    ELSE IF serpapi_wrapper /\ ~web.ok
    THEN [s EXCEPT !.error = <<"research_error: ">> \o web.val,
                   !.research_results = DictSet(EmptyDict, "wikipedia", wiki.val),
                   !.next_step = "error_handler"]
    ELSE [s EXCEPT !.research_done = TRUE,
                   !.research_results =
                       IF serpapi_wrapper
                       THEN DictSet(DictSet(EmptyDict, "wikipedia", wiki.val),
                                    "web_search", web.val)
                       ELSE DictSet(EmptyDict, "wikipedia", wiki.val),
                   !.next_step = "rag"]

\* a _research that calls the web search without testing that it is configured
research_unguarded_web_search(s, wiki, web) ==
    IF ~wiki.ok
    THEN [s EXCEPT !.error = <<"research_error: ">> \o wiki.val,
                   !.next_step = "error_handler"]
    ELSE IF ~serpapi_wrapper
    THEN [s EXCEPT !.error = <<"research_error: ", "NoneType_has_no_attribute_run">>,
                   !.next_step = "error_handler"]
    ELSE IF ~web.ok
    THEN [s EXCEPT !.error = <<"research_error: ">> \o web.val,
                   !.next_step = "error_handler"]
    ELSE [s EXCEPT !.research_done = TRUE,
                   !.research_results =
                       DictSet(DictSet(EmptyDict, "wikipedia", wiki.val),
                               "web_search", web.val),
                   !.next_step = "rag"]

\* a _research that swallows a wikipedia fault and carries on without its text
research_swallowing_wikipedia(s, wiki, web) ==
    IF wiki.ok /\ serpapi_wrapper /\ ~web.ok
    THEN [s EXCEPT !.error = <<"research_error: ">> \o web.val,
                   !.next_step = "error_handler"]
    ELSE [s EXCEPT !.research_done = TRUE,
                   !.research_results =
                       DictSet(EmptyDict, "wikipedia",
                               IF wiki.ok THEN wiki.val ELSE <<"no_information">>),
                   !.next_step = "rag"]

\* a _research that degrades like _rag: on failure it goes on to the next node
research_degrading(s, wiki, web) ==
    IF research_raised(wiki, web)
    THEN [s EXCEPT !.error = <<"research_error: ">> \o research_exception(wiki, web),
                   !.next_step = "rag"]
    ELSE [s EXCEPT !.research_done = TRUE,
                   !.research_results =
                       IF serpapi_wrapper
                       THEN DictSet(DictSet(EmptyDict, "wikipedia", wiki.val),
                                    "web_search", web.val)
                       ELSE DictSet(EmptyDict, "wikipedia", wiki.val),
                   !.next_step = "rag"]

\* _research
research(s, wiki, web) ==
    IF research_raised(wiki, web)
    THEN [s EXCEPT !.error = <<"research_error: ">> \o research_exception(wiki, web),
                   !.next_step = "error_handler"]
    ELSE [s EXCEPT !.research_done = TRUE,
                   !.research_results =
                       IF serpapi_wrapper
                       THEN DictSet(DictSet(EmptyDict, "wikipedia", wiki.val),
                                    "web_search", web.val)
                       ELSE DictSet(EmptyDict, "wikipedia", wiki.val),
                   !.next_step = "rag"]

\* rag_query: the text _rag asks the knowledge base
rag_query(s) ==
    s.destination \o <<"travel_information">> \o s.purpose \o <<"duration: ">> \o s.duration

\* a _rag that takes a hit without a score for a failure of the knowledge base
rag_rejecting_unscored_hits(s, kb) ==
    IF kb.ok /\ \A i \in 1..Len(kb.val) : "similarity_score" \in DOMAIN kb.val[i]
    THEN [s EXCEPT !.rag_results = kb.val, !.next_step = "plan_generation"]
    ELSE [s EXCEPT !.error = <<"knowledge_base_error: ">>
                                \o (IF kb.ok THEN kb.val[1].content ELSE kb.val),
                   !.rag_results = <<>>,
                   !.next_step = "plan_generation"]

\* a _rag that aborts like the other nodes: on failure it goes to the error handler
rag_aborting(s, kb) ==
    IF kb.ok
    THEN [s EXCEPT !.rag_results = kb.val, !.next_step = "plan_generation"]
    ELSE [s EXCEPT !.error = <<"knowledge_base_error: ">> \o kb.val,
                   !.rag_results = <<>>,
                   !.next_step = "error_handler"]

\* a _rag that keeps only the best hit
rag_first_hit_only(s, kb) ==
    IF kb.ok
    THEN [s EXCEPT !.rag_results = IF kb.val = <<>> THEN <<>> ELSE <<kb.val[1]>>,
                   !.next_step = "plan_generation"]
    ELSE [s EXCEPT !.error = <<"knowledge_base_error: ">> \o kb.val,
                   !.rag_results = <<>>,
                   !.next_step = "plan_generation"]

\* a _rag that retrieves nothing until the research is done
rag_after_research_only(s, kb) ==
    IF kb.ok
    THEN [s EXCEPT !.rag_results = IF s.research_done THEN kb.val ELSE <<>>,
                   !.next_step = "plan_generation"]
    ELSE [s EXCEPT !.error = <<"knowledge_base_error: ">> \o kb.val,
                   !.rag_results = <<>>,
                   !.next_step = "plan_generation"]

\* _rag
rag(s, kb) ==
    IF kb.ok
    THEN [s EXCEPT !.rag_results = kb.val, !.next_step = "plan_generation"]
    ELSE [s EXCEPT !.error = <<"knowledge_base_error: ">> \o kb.val,
                   !.rag_results = <<>>,
                   !.next_step = "plan_generation"]

\* rag_content of _plan_generation: one headed block per hit
RECURSIVE rag_content(_)
rag_content(hits) ==
    IF hits = <<>> THEN Empty
    ELSE rag_content(SubSeq(hits, 1, Len(hits) - 1))
            \o <<"internal_knowledge_" \o ToString(Len(hits))>>
            \o hits[Len(hits)].content

\* the HumanMessage of _plan_generation
plan_prompt(s) ==
    <<"plan_request">> \o s.current_location \o s.destination \o s.budget
        \o s.duration \o s.purpose
        \o <<"external_information">>
        \o DictGet(s.research_results, "wikipedia", <<"no_information">>)
        \o DictGet(s.research_results, "web_search", Empty)
        \o <<"internal_knowledge">> \o rag_content(s.rag_results)

\* a _plan_generation that keeps the message of an earlier failure
plan_generation_keeping_error(s, llm) ==
    IF llm.ok
    THEN [s EXCEPT !.travel_plan = llm.val, !.next_step = "recommendation"]
    ELSE [s EXCEPT !.error = IF s.error # Empty THEN s.error
                             ELSE <<"plan_generation_error: ">> \o llm.val,
                   !.next_step = "error_handler"]

\* _plan_generation
plan_generation(s, llm) ==
    IF llm.ok
    THEN [s EXCEPT !.travel_plan = llm.val, !.next_step = "recommendation"]
    ELSE [s EXCEPT !.error = <<"plan_generation_error: ">> \o llm.val,
                   !.next_step = "error_handler"]

\* the HumanMessage of _recommendation
recommendation_prompt(s) ==
    <<"advice_request">> \o s.destination \o s.duration \o s.purpose \o s.budget

\* a _recommendation that writes a token its path map does not have
recommendation_unknown_token(s, llm) ==
    IF llm.ok
    THEN [s EXCEPT !.additional_info = llm.val, !.next_step = "done"]
    ELSE [s EXCEPT !.error = <<"recommendation_error: ">> \o llm.val,
                   !.next_step = "error_handler"]

\* a _recommendation that leaves a note in additional_info when it fails
recommendation_partial_advice(s, llm) ==
    IF llm.ok
    THEN [s EXCEPT !.additional_info = llm.val, !.next_step = "end"]
    ELSE [s EXCEPT !.error = <<"recommendation_error: ">> \o llm.val,
                   !.additional_info = <<"advice_unavailable">>,
                   !.next_step = "error_handler"]

\* _recommendation
recommendation(s, llm) ==
    IF llm.ok
    THEN [s EXCEPT !.additional_info = llm.val, !.next_step = "end"]
    ELSE [s EXCEPT !.error = <<"recommendation_error: ">> \o llm.val,
                   !.next_step = "error_handler"]

\* the four numbered advice lines that close the fallback plan
AdviceLines ==
    <<"1_research_main_sights", "2_prepare_clothes_for_weather",
      "3_check_local_transport", "4_consider_travel_insurance">>

\* a fallback plan that leaves the error message out
fallback_plan_without_error(s) ==
    <<"fallback_title", "fallback_apology">>
        \o <<"basic_information_of">> \o s.destination
        \o <<"duration: ">> \o s.duration
        \o <<"budget: ">> \o s.budget
        \o <<"purpose: ">> \o s.purpose
        \o <<"general_advice_for">> \o s.destination
        \o AdviceLines

\* fallback_plan of _error_handler
fallback_plan(s) ==
    <<"fallback_title", "fallback_apology">> \o s.error
        \o <<"basic_information_of">> \o s.destination
        \o <<"duration: ">> \o s.duration
        \o <<"budget: ">> \o s.budget
        \o <<"purpose: ">> \o s.purpose
        \o <<"general_advice_for">> \o s.destination
        \o AdviceLines

\* an _error_handler that keeps an itinerary the plan generation already wrote
error_handler_keeping_plan(s) ==
    [s EXCEPT !.travel_plan = IF s.travel_plan # Empty THEN s.travel_plan
                              ELSE fallback_plan(s),
              !.next_step = "end"]

\* an _error_handler that empties error once the fallback plan holds the message
error_handler_clearing_error(s) ==
    [s EXCEPT !.travel_plan = fallback_plan(s), !.error = Empty, !.next_step = "end"]

\* _error_handler
error_handler(s) == [s EXCEPT !.travel_plan = fallback_plan(s), !.next_step = "end"]

\* a node that updates the dict it was given in place
GivenAfter_in_place(s, returned) == returned

\* the dict a node was given, as it is once the node has returned: every node
\* builds its result with {**state, ...} and fresh values, the given dict is not
\* written
GivenAfter(s, returned) == s

(***************************************************************************)
(* Routing: the conditional edges of _build_workflow.                      *)
(***************************************************************************)
\* a _should_research that ignores research_done
should_research_always(s) == "research"

\* _should_research
should_research(s) == IF ~s.research_done THEN "research" ELSE "plan_generation"

\* _router
router(s) == s.next_step

\* path maps that send a failed research back to RESEARCH
PathMap_retrying(node) ==
    CASE node = "START" ->
            [research |-> "research", plan_generation |-> "plan_generation"]
      [] node = "research" ->
            [rag |-> "rag", error_handler |-> "research"]
      [] node = "rag" ->
            [plan_generation |-> "plan_generation", error_handler |-> "error_handler"]
      [] node = "plan_generation" ->
            [recommendation |-> "recommendation", error_handler |-> "error_handler"]
      [] node = "recommendation" ->
            [end |-> "END", error_handler |-> "error_handler"]

\* the path map of each node's conditional edge
PathMap(node) ==
    CASE node = "START" ->
            [research |-> "research", plan_generation |-> "plan_generation"]
      [] node = "research" ->
            [rag |-> "rag", error_handler |-> "error_handler"]
      [] node = "rag" ->
            [plan_generation |-> "plan_generation", error_handler |-> "error_handler"]
      [] node = "plan_generation" ->
            [recommendation |-> "recommendation", error_handler |-> "error_handler"]
      [] node = "recommendation" ->
            [end |-> "END", error_handler |-> "error_handler"]

\* where the graph goes after `node` returned s: the conditional edge's target, the
\* plain edge ERROR_HANDLER -> END, or a fault of the graph run when the token is
\* no key of the path map
Successor(node, s) ==
    IF node = "error_handler" THEN "END"
    ELSE LET token == IF node = "START" THEN should_research(s) ELSE router(s)
         IN  IF token \in DOMAIN PathMap(node) THEN PathMap(node)[token]
             ELSE "fault"

(***************************************************************************)
(* generate_travel_plans' result and its rendering.                        *)
(***************************************************************************)
\* a result dict that records the error field without testing it
payload_always_error(final_state) ==
    [travel_plans    |-> final_state.travel_plan,
     additional_info |-> final_state.additional_info,
     error           |-> final_state.error]

\* the result dict built from the graph's final state
payload(final_state) ==
    LET r == [travel_plans    |-> final_state.travel_plan,
              additional_info |-> final_state.additional_info]
    IN  IF final_state.error # Empty THEN DictSet(r, "error", final_state.error) ELSE r

\* an except clause that also returns the (empty) plan fields
top_level_error_with_plan(e) ==
    [travel_plans |-> Empty, additional_info |-> Empty,
     error |-> <<"generate_travel_plans_error: ">> \o e]

\* the dict returned by the except clause of generate_travel_plans
top_level_error(e) == [error |-> <<"generate_travel_plans_error: ">> \o e]

\* str(e) of the fault the graph run raises on a token outside the path map
UnknownRoute == <<"unknown_route">>

\* render_travel_plans: the widgets it puts on the page, in order
render_travel_plans(r) ==
    IF "error" \in DOMAIN r
    THEN <<[widget |-> "error", text |-> r["error"]]>>
    ELSE <<[widget |-> "success", text |-> <<"plan_generated">>],
           [widget |-> "plan", text |-> r["travel_plans"]]>>
         \o (IF "additional_info" \in DOMAIN r /\ r["additional_info"] # Empty
             THEN <<[widget |-> "additional_info", text |-> r["additional_info"]]>>
             ELSE <<>>)
         \o <<[widget |-> "info", text |-> <<"disclaimer">>]>>


(***************************************************************************)
(* Several generate_travel_plans calls on the one cached engine.           *)
(***************************************************************************)
\* the calls in progress
Requests == {1, 2}

\* the answers a call's collaborators gave it, per node (Ok(Empty) until asked)
NoOuts == [wiki |-> Ok(Empty), web |-> Ok(Empty), kb |-> Ok(Empty),
           plan |-> Ok(Empty), rec |-> Ok(Empty)]

\* the answers drawn for concurrent calls: a non-empty success or the timeout
OneFault(outcomes) == {o \in outcomes : o.val # Empty}

\* the requests of concurrent calls: they differ in the destination
ConcForms == {form \in FormData : /\ form.current_location = <<"Tokyo">>
                                   /\ form.budget = <<"under_50k_yen">>}

\* the answers the collaborators of `node` can give a call that recorded outs: the
\* web search is asked only when configured and after Wikipedia answered
Answers(node, outs) ==
    CASE node = "research" ->
            UNION {{[outs EXCEPT !.wiki = wiki, !.web = web] :
                        web \in IF serpapi_wrapper /\ wiki.ok THEN OneFault(WebOutcomes)
                                ELSE {Ok(Empty)}} :
                   wiki \in OneFault(WikiOutcomes)}
      [] node = "rag" -> {[outs EXCEPT !.kb = kb] : kb \in OneFault(KBOutcomes)}
      [] node = "plan_generation" ->
            {[outs EXCEPT !.plan = llm] : llm \in OneFault(LLMOutcomes)}
      [] node = "recommendation" ->
            {[outs EXCEPT !.rec = llm] : llm \in OneFault(LLMOutcomes)}
      [] OTHER -> {outs}

\* a graph that keeps the state of the first call for every call
StateOf_shared(rs, r) == rs[1].state

\* the state the graph hands to the node of call r: the one threaded through the
\* call's own workflow.invoke
StateOf(rs, r) == rs[r].state

\* the state a node returns
NodeResult(node, s, outs) ==
    CASE node = "research" -> research(s, outs.wiki, outs.web)
      [] node = "rag" -> rag(s, outs.kb)
      [] node = "plan_generation" -> plan_generation(s, outs.plan)
      [] node = "recommendation" -> recommendation(s, outs.rec)
      [] node = "error_handler" -> error_handler(s)

\* workflow.invoke run alone from `node` on state s with the given answers: where
\* it stops and the final state
RECURSIVE RunAlone(_, _, _)
RunAlone(node, s, outs) ==
    IF node \in {"END", "fault"} THEN [pc |-> node, state |-> s]
    ELSE IF node = "START" THEN RunAlone(Successor("START", s), s, outs)
    ELSE LET t == NodeResult(node, s, outs)
         IN  RunAlone(Successor(node, t), t, outs)

\* what generate_travel_plans returns after the graph run
ResultOf(final) ==
    IF final.pc = "fault" THEN top_level_error(UnknownRoute) ELSE payload(final.state)

(***************************************************************************)
(* The state machine.                                                      *)
(***************************************************************************)
\* the value of `state` while no graph run exists
NoState == initial_state([current_location |-> Empty, destination |-> Empty,
                          budget |-> Empty, duration |-> Empty, purpose |-> Empty])

NoCalls == [wikipedia |-> 0, web_search |-> 0, knowledge_base |-> 0, llm |-> 0]

\* no initialize call and no query in progress
NoRace == [init |-> [pc |-> "idle", called |-> FALSE, before |-> None, remaining |-> <<>>, documents |-> <<>>,
                     chunks |-> <<>>, built |-> None],
           query |-> [pc |-> "idle", text |-> Empty, top_k |-> 0, checked |-> None,
                      searched |-> None, hits |-> <<>>]]

\* no node applied out of the graph
NoOrders == [start |-> NoState, outs |-> NoOuts,
             a |-> [applied |-> <<>>, state |-> NoState, query |-> Empty],
             b |-> [applied |-> <<>>, state |-> NoState, query |-> Empty]]

\* no generate_travel_plans call in progress
IdleRun == [pc |-> "idle", start |-> NoState, state |-> NoState, outs |-> NoOuts,
            result |-> EmptyDict, overlapped |-> FALSE]
IdleRuns == [r \in Requests |-> IdleRun]

\* the engine as constructed: web search configured or not, tracing on or off, and
\* the knowledge base's index unset (no markdown file found) or built
Init ==
    /\ serpapi_wrapper \in BOOLEAN
    /\ tracing_enabled \in BOOLEAN
    /\ vector_store \in {None} \cup {Some(ix) : ix \in Indexes}
    /\ race = NoRace
    /\ orders = NoOrders
    /\ runs = IdleRuns
    /\ workflow = "engine"
    /\ construction = NoConstruction
    /\ kb_files = {}
    /\ kb_alive = "alive"
    /\ kb_init = NoInit
    /\ kb_query = NoQuery
    /\ pc = "idle"
    /\ entry = "none"
    /\ tracer = FALSE
    /\ state = NoState
    /\ start_state = NoState
    /\ given = NoState
    /\ escaped = FALSE
    /\ trace = <<>>
    /\ failed = {}
    /\ calls = NoCalls
    /\ kb_returned = <<>>
    /\ llm_prompts = <<>>
    /\ llm_returned = <<>>
    /\ result = EmptyDict
    /\ rendered = <<>>

Config == <<serpapi_wrapper, tracing_enabled, vector_store, race, orders, runs, workflow, construction,
            kb_files, kb_alive, kb_init, kb_query>>
History == <<trace, failed, calls, kb_returned, llm_prompts, llm_returned>>

\* main: the form is submitted and generate_travel_plans runs up to workflow.invoke
Submit ==
    /\ pc = "idle"
    /\ workflow = "engine"
    /\ \E form \in FormData : state' = initial_state(form)
    /\ start_state' = state'
    /\ given' = NoState
    /\ tracer' \in IF tracing_enabled THEN BOOLEAN ELSE {FALSE}
    /\ entry' = "generate_travel_plans"
    /\ pc' = "START"
    /\ UNCHANGED <<Config, History, escaped, result, rendered>>

\* the conditional edge out of START
Start ==
    /\ pc = "START"
    /\ pc' = Successor("START", state)
    /\ UNCHANGED <<Config, History, entry, tracer, state, start_state, given, escaped, result,
                   rendered>>

\* the RESEARCH node and the edge out of it
Research ==
    /\ pc = "research"
    /\ \E wiki \in WikiOutcomes, web \in WebOutcomes :
        /\ state' = research(state, wiki, web)
        /\ failed' = IF research_raised(wiki, web) THEN failed \cup {"research"} ELSE failed
        /\ calls' = [calls EXCEPT !.wikipedia = @ + 1,
                                  !.web_search = IF serpapi_wrapper /\ wiki.ok
                                                 THEN @ + 1 ELSE @]
    /\ pc' = Successor("research", state')
    /\ trace' = Append(trace, "research")
    /\ given' = GivenAfter(state, state')
    /\ UNCHANGED <<Config, entry, tracer, start_state, escaped, kb_returned, llm_prompts,
                   llm_returned, result, rendered>>

\* the RAG node and the edge out of it
Rag ==
    /\ pc = "rag"
    /\ \E kb \in KBOutcomes :
        /\ state' = rag(state, kb)
        /\ failed' = IF kb.ok THEN failed ELSE failed \cup {"rag"}
        /\ kb_returned' = Append(kb_returned, kb)
    /\ calls' = [calls EXCEPT !.knowledge_base = @ + 1]
    /\ pc' = Successor("rag", state')
    /\ trace' = Append(trace, "rag")
    /\ given' = GivenAfter(state, state')
    /\ UNCHANGED <<Config, entry, tracer, start_state, escaped, llm_prompts,
                   llm_returned, result, rendered>>

\* the PLAN_GENERATION node and the edge out of it
PlanGeneration ==
    /\ pc = "plan_generation"
    /\ \E llm \in LLMOutcomes :
        /\ state' = plan_generation(state, llm)
        /\ failed' = IF llm.ok THEN failed ELSE failed \cup {"plan_generation"}
        /\ llm_returned' = Append(llm_returned, llm)
    /\ llm_prompts' = Append(llm_prompts, plan_prompt(state))
    /\ calls' = [calls EXCEPT !.llm = @ + 1]
    /\ pc' = Successor("plan_generation", state')
    /\ trace' = Append(trace, "plan_generation")
    /\ given' = GivenAfter(state, state')
    /\ UNCHANGED <<Config, entry, tracer, start_state, escaped, kb_returned, result,
                   rendered>>

\* the RECOMMENDATION node and the edge out of it
Recommendation ==
    /\ pc = "recommendation"
    /\ \E llm \in LLMOutcomes :
        /\ state' = recommendation(state, llm)
        /\ failed' = IF llm.ok THEN failed ELSE failed \cup {"recommendation"}
        /\ llm_returned' = Append(llm_returned, llm)
    /\ llm_prompts' = Append(llm_prompts, recommendation_prompt(state))
    /\ calls' = [calls EXCEPT !.llm = @ + 1]
    /\ pc' = Successor("recommendation", state')
    /\ trace' = Append(trace, "recommendation")
    /\ given' = GivenAfter(state, state')
    /\ UNCHANGED <<Config, entry, tracer, start_state, escaped, kb_returned, result,
                   rendered>>

\* the ERROR_HANDLER node and its edge to END
ErrorHandler ==
    /\ pc = "error_handler"
    /\ state' = error_handler(state)
    /\ pc' = Successor("error_handler", state')
    /\ trace' = Append(trace, "error_handler")
    /\ given' = GivenAfter(state, state')
    /\ UNCHANGED <<Config, entry, tracer, start_state, escaped, failed, calls,
                   kb_returned, llm_prompts, llm_returned, result, rendered>>

\* generate_travel_plans after workflow.invoke: the graph run raised, or it returned
\* the final state, the tracers are waited for (which may raise), the result is built
Return ==
    /\ pc \in {"END", "fault"}
    /\ entry = "generate_travel_plans"
    /\ \E flush \in IF tracing_enabled /\ tracer THEN FlushOutcomes ELSE {Ok(Empty)} :
        /\ result' = IF pc = "fault" THEN top_level_error(UnknownRoute)
                     ELSE IF ~flush.ok THEN top_level_error(flush.val)
                     ELSE payload(state)
        /\ escaped' = (pc = "fault" \/ ~flush.ok)
    /\ pc' = "returned"
    /\ UNCHANGED <<Config, History, entry, tracer, state, start_state, given, rendered>>

\* main: the result is kept in the session, the script reruns and renders it
Render ==
    /\ pc = "returned"
    /\ rendered' = render_travel_plans(result)
    /\ pc' = "rendered"
    /\ UNCHANGED <<Config, History, entry, tracer, state, start_state, given, escaped, result>>

\* main: the button for a new plan clears the session
NewPlan ==
    /\ pc = "rendered"
    /\ pc' = "idle"
    /\ entry' = "none"
    /\ tracer' = FALSE
    /\ state' = NoState
    /\ start_state' = NoState
    /\ given' = NoState
    /\ escaped' = FALSE
    /\ trace' = <<>>
    /\ failed' = {}
    /\ calls' = NoCalls
    /\ kb_returned' = <<>>
    /\ llm_prompts' = <<>>
    /\ llm_returned' = <<>>
    /\ result' = EmptyDict
    /\ rendered' = <<>>
    /\ UNCHANGED Config

Next ==
    \/ Submit
    \/ Start
    \/ Research
    \/ Rag
    \/ PlanGeneration
    \/ Recommendation
    \/ ErrorHandler
    \/ Return
    \/ Render
    \/ NewPlan

Spec == Init /\ [][Next]_vars

\* a step of the graph run: workflow.invoke executes the nodes one after the other
\* and every external call returns or raises, so a run that can step does step
GraphStep ==
    \/ Start
    \/ Research
    \/ Rag
    \/ PlanGeneration
    \/ Recommendation
    \/ ErrorHandler

SpecFair == Spec /\ WF_vars(GraphStep)

(***************************************************************************)
(* The compiled graph run directly: workflow.invoke(state) on a state the  *)
(* caller supplies, which may already hold research (research_done true).  *)
(* generate_travel_plans never does this; the graph's START edge provides  *)
(* for it.                                                                 *)
(***************************************************************************)
\* the TravelPlanningState values a direct caller hands to the graph
GraphInputs ==
    {[initial_state(form) EXCEPT !.research_done = done, !.research_results = found] :
        form \in FormData, done \in BOOLEAN,
        found \in {EmptyDict, DictSet(EmptyDict, "wikipedia", <<"wikipedia_text">>)}}

\* workflow.invoke(state) called on the compiled graph
Invoke ==
    /\ pc = "idle"
    /\ state' \in GraphInputs
    /\ start_state' = state'
    /\ given' = NoState
    /\ entry' = "invoke"
    /\ pc' = "START"
    /\ UNCHANGED <<Config, History, tracer, escaped, result, rendered>>

\* workflow.invoke returns the final state (or raises) to its direct caller
InvokeDone ==
    /\ pc \in {"END", "fault"}
    /\ entry = "invoke"
    /\ pc' = "idle"
    /\ entry' = "none"
    /\ state' = NoState
    /\ start_state' = NoState
    /\ given' = NoState
    /\ trace' = <<>>
    /\ failed' = {}
    /\ calls' = NoCalls
    /\ kb_returned' = <<>>
    /\ llm_prompts' = <<>>
    /\ llm_returned' = <<>>
    /\ UNCHANGED <<Config, tracer, escaped, result, rendered>>

NextGraph == Next \/ Invoke \/ InvokeDone

SpecGraph == Init /\ [][NextGraph]_vars


(***************************************************************************)
(* The knowledge base on its own: construction, re-initialization, queries *)
(* with any text and top_k, and changes of the directory's content.        *)
(***************************************************************************)
\* the knowledge base under construction: vector_store is None, initialize is next
InitKB ==
    /\ serpapi_wrapper = FALSE
    /\ tracing_enabled = FALSE
    /\ vector_store = None
    /\ race = NoRace
    /\ orders = NoOrders
    /\ runs = IdleRuns
    /\ workflow = "uncached"
    /\ construction = NoConstruction
    /\ kb_files \in SUBSET {KBFiles[i] : i \in 1..Len(KBFiles)}
    /\ kb_alive = "constructing"
    /\ kb_init = NoInit
    /\ kb_query = NoQuery
    /\ pc = "idle"
    /\ entry = "none"
    /\ tracer = FALSE
    /\ state = NoState
    /\ start_state = NoState
    /\ given = NoState
    /\ escaped = FALSE
    /\ trace = <<>>
    /\ failed = {}
    /\ calls = NoCalls
    /\ kb_returned = <<>>
    /\ llm_prompts = <<>>
    /\ llm_returned = <<>>
    /\ result = EmptyDict
    /\ rendered = <<>>

Workflow == <<serpapi_wrapper, tracing_enabled, race, orders, runs, workflow, construction, pc, entry, tracer, state, start_state, given,
              escaped, trace, failed, calls, kb_returned, llm_prompts, llm_returned,
              result, rendered>>

\* one call of initialize_knowledge_base with the given outcomes
InitializeCall(scan, loaded, embed) ==
    LET out == initialize_knowledge_base(vector_store, kb_files, scan, loaded, embed)
    IN  /\ vector_store' = out.store
        /\ kb_init' = [called |-> TRUE, found |-> Discovered(kb_files), loaded |-> loaded,
                       scan_ok |-> scan.ok, embed_ok |-> embed.ok,
                       raised |-> out.raised, before |-> vector_store]
        /\ kb_query' = NoQuery

\* RAGKnowledgeBase.__init__ from its call of initialize_knowledge_base on: the object
\* exists if and only if the call does not raise
KBConstruct ==
    /\ kb_alive = "constructing"
    /\ \E scan \in ScanOutcomes, loaded \in SUBSET kb_files, embed \in EmbedOutcomes :
        /\ InitializeCall(scan, loaded, embed)
        /\ kb_alive' = IF kb_init'.raised THEN "failed" ELSE "alive"
    /\ UNCHANGED <<Workflow, kb_files>>

\* an explicit initialize_knowledge_base call on the live object
KBInitialize ==
    /\ kb_alive = "alive"
    /\ \E scan \in ScanOutcomes, loaded \in SUBSET kb_files, embed \in EmbedOutcomes :
        InitializeCall(scan, loaded, embed)
    /\ UNCHANGED <<Workflow, kb_files, kb_alive>>

\* a query_knowledge_base call that drops an index whose search failed
KBQuery_dropping_failed_index ==
    /\ kb_alive = "alive"
    /\ \E text \in QueryTexts, top_k \in 0..MaxTopK :
        \E search \in IF vector_store = None THEN {Ok(<<>>)}
                      ELSE SearchOutcomes(Ranked(vector_store[1], text), top_k) :
            /\ kb_query' = [called |-> TRUE, text |-> text, top_k |-> top_k,
                            before |-> vector_store, search |-> search,
                            hits |-> query_knowledge_base(vector_store, search),
                            embedded |-> consults_embeddings(vector_store)]
            /\ vector_store' = IF search.ok THEN vector_store ELSE None
    /\ UNCHANGED <<Workflow, kb_files, kb_alive, kb_init>>

\* a query_knowledge_base call on the live object
KBQuery ==
    /\ kb_alive = "alive"
    /\ \E text \in QueryTexts, top_k \in 0..MaxTopK :
        \E search \in IF vector_store = None THEN {Ok(<<>>)}
                      ELSE SearchOutcomes(Ranked(vector_store[1], text), top_k) :
            kb_query' = [called |-> TRUE, text |-> text, top_k |-> top_k,
                         before |-> vector_store, search |-> search,
                         hits |-> query_knowledge_base(vector_store, search),
                         embedded |-> consults_embeddings(vector_store)]
    /\ UNCHANGED <<Workflow, vector_store, kb_files, kb_alive, kb_init>>

\* markdown files are added to or removed from the directory
KBChangeFiles ==
    /\ kb_files' \in SUBSET {KBFiles[i] : i \in 1..Len(KBFiles)}
    /\ kb_files' # kb_files
    /\ UNCHANGED <<Workflow, vector_store, kb_alive, kb_init, kb_query>>

NextKB ==
    \/ KBConstruct
    \/ KBInitialize
    \/ KBQuery
    \/ KBChangeFiles

SpecKB == InitKB /\ [][NextKB]_vars


(***************************************************************************)
(* The application from its start: the first submission constructs the     *)
(* engine, st.cache_resource keeps what get_travel_planner_workflow        *)
(* returned for the submissions that follow.                               *)
(***************************************************************************)
InitApp ==
    /\ serpapi_wrapper = FALSE
    /\ tracing_enabled = FALSE
    /\ vector_store = None
    /\ race = NoRace
    /\ orders = NoOrders
    /\ runs = IdleRuns
    /\ workflow = "uncached"
    /\ construction = NoConstruction
    /\ kb_files \in SUBSET {KBFiles[i] : i \in 1..Len(KBFiles)}
    /\ kb_alive = "none"
    /\ kb_init = NoInit
    /\ kb_query = NoQuery
    /\ pc = "idle"
    /\ entry = "none"
    /\ tracer = FALSE
    /\ state = NoState
    /\ start_state = NoState
    /\ given = NoState
    /\ escaped = FALSE
    /\ trace = <<>>
    /\ failed = {}
    /\ calls = NoCalls
    /\ kb_returned = <<>>
    /\ llm_prompts = <<>>
    /\ llm_returned = <<>>
    /\ result = EmptyDict
    /\ rendered = <<>>

\* the first call of get_travel_planner_workflow: what it returns is cached, and a
\* constructor that ran to its end leaves the engine's configuration
Construct(in) ==
    LET got == get_travel_planner_workflow(kb_files, in)
        made == got.made
    IN  /\ workflow' = got.workflow
        /\ construction' = [called |-> TRUE, attempted |-> got.attempted,
                            key |-> in.openai_api_key, steps_ok |-> StepsOk(kb_files, in)]
        /\ IF got.workflow = "engine"
           THEN /\ serpapi_wrapper' = made.serpapi_wrapper
                /\ tracing_enabled' = in.tracing
                /\ vector_store' = made.kb.store
                /\ kb_alive' = "alive"
                /\ kb_init' = [called |-> TRUE, found |-> Discovered(kb_files),
                               loaded |-> in.loaded, scan_ok |-> in.scan.ok,
                               embed_ok |-> in.embed.ok, raised |-> made.kb.raised,
                               before |-> None]
           ELSE UNCHANGED <<serpapi_wrapper, tracing_enabled, vector_store, kb_alive,
                            kb_init>>

\* main on a submitted form: get the workflow; without one, show the error and stop;
\* with one, run generate_travel_plans up to workflow.invoke
SubmitApp ==
    /\ pc = "idle"
    /\ IF workflow = "uncached"
       THEN \E in \in ConstructionInputs(kb_files) : Construct(in)
       ELSE UNCHANGED <<serpapi_wrapper, tracing_enabled, vector_store, workflow,
                        construction, kb_alive, kb_init>>
    /\ IF workflow' = "engine"
       THEN /\ \E form \in FormData : state' = initial_state(form)
            /\ start_state' = state'
            /\ given' = NoState
            /\ tracer' \in IF tracing_enabled' THEN BOOLEAN ELSE {FALSE}
            /\ entry' = "generate_travel_plans"
            /\ pc' = "START"
            /\ UNCHANGED rendered
       ELSE /\ rendered' = <<"workflow_initialization_failed">>
            /\ UNCHANGED <<state, start_state, given, tracer, entry, pc>>
    /\ UNCHANGED <<race, orders, runs, kb_files, kb_query, History, escaped, result>>

NextApp ==
    \/ SubmitApp
    \/ Start
    \/ Research
    \/ Rag
    \/ PlanGeneration
    \/ Recommendation
    \/ ErrorHandler
    \/ Return
    \/ Render
    \/ NewPlan

SpecApp == InitApp /\ [][NextApp]_vars


(***************************************************************************)
(* Concurrent calls: the node executions of the calls interleave freely.   *)
(***************************************************************************)
InitConc ==
    /\ serpapi_wrapper \in BOOLEAN
    /\ tracing_enabled = FALSE
    /\ vector_store \in {None, Some(<<Chunk(1)>>)}
    /\ race = NoRace
    /\ orders = NoOrders
    /\ runs = IdleRuns
    /\ workflow = "engine"
    /\ construction = NoConstruction
    /\ kb_files = {}
    /\ kb_alive = "alive"
    /\ kb_init = NoInit
    /\ kb_query = NoQuery
    /\ pc = "idle"
    /\ entry = "none"
    /\ tracer = FALSE
    /\ state = NoState
    /\ start_state = NoState
    /\ given = NoState
    /\ escaped = FALSE
    /\ trace = <<>>
    /\ failed = {}
    /\ calls = NoCalls
    /\ kb_returned = <<>>
    /\ llm_prompts = <<>>
    /\ llm_returned = <<>>
    /\ result = EmptyDict
    /\ rendered = <<>>

Others == <<serpapi_wrapper, tracing_enabled, vector_store, race, orders, workflow, construction,
            kb_files, kb_alive, kb_init, kb_query, pc, entry, tracer, state,
            start_state, given, escaped, trace, failed, calls, kb_returned, llm_prompts,
            llm_returned, result, rendered>>

\* another call is between its workflow.invoke and its return
Overlaps(r) == \E q \in Requests \ {r} : runs[q].pc \notin {"idle", "returned"}

\* a generate_travel_plans that resumes from the research a returned call has left
ConcSubmit_resuming(r) ==
    /\ runs[r].pc = "idle"
    /\ \E form \in ConcForms :
        LET left == {runs[q].state : q \in {p \in Requests \ {r} : runs[p].pc = "returned"}}
            first == {[initial_state(form) EXCEPT
                          !.research_done = s.research_done,
                          !.research_results = s.research_results] : s \in left}
        IN  \E s \in IF left = {} THEN {initial_state(form)} ELSE first :
                runs' = [runs EXCEPT ![r] = [pc |-> "START", start |-> s, state |-> s,
                                             outs |-> NoOuts, result |-> EmptyDict,
                                             overlapped |-> Overlaps(r)]]
    /\ UNCHANGED Others

\* call r of generate_travel_plans builds its initial_state and invokes the graph
ConcSubmit(r) ==
    /\ runs[r].pc = "idle"
    /\ \E form \in ConcForms :
        runs' = [runs EXCEPT ![r] = [pc |-> "START", start |-> initial_state(form),
                                     state |-> initial_state(form), outs |-> NoOuts,
                                     result |-> EmptyDict, overlapped |-> Overlaps(r)]]
    /\ UNCHANGED Others

\* the graph run of call r takes its next step: the edge out of START, or a node
\* with the answers of its collaborators and the edge out of it
ConcStep(r) ==
    /\ runs[r].pc \in Nodes \cup {"START"}
    /\ \E outs \in Answers(runs[r].pc, runs[r].outs) :
        LET node == runs[r].pc
            s == IF node = "START" THEN StateOf(runs, r)
                 ELSE NodeResult(node, StateOf(runs, r), outs)
        IN  runs' = [runs EXCEPT ![r].outs = outs, ![r].state = s,
                                 ![r].pc = Successor(node, s),
                                 ![r].overlapped = @ \/ Overlaps(r)]
    /\ UNCHANGED Others

\* call r returns its result
ConcReturn(r) ==
    /\ runs[r].pc \in {"END", "fault"}
    /\ runs' = [runs EXCEPT ![r].result = IF runs[r].pc = "fault"
                                           THEN top_level_error(UnknownRoute)
                                           ELSE payload(StateOf(runs, r)),
                             ![r].pc = "returned"]
    /\ UNCHANGED Others

NextConc ==
    \E r \in Requests :
        \/ ConcSubmit(r)
        \/ ConcStep(r)
        \/ ConcReturn(r)

SpecConc == InitConc /\ [][NextConc]_vars

(***************************************************************************)
(* RESEARCH and RETRIEVAL as functions of the state: both applied to one   *)
(* initial state with the same answers, research first in `a`, retrieval   *)
(* first in `b`.                                                           *)
(***************************************************************************)
InitOrder ==
    /\ serpapi_wrapper \in BOOLEAN
    /\ tracing_enabled = FALSE
    /\ vector_store \in {None} \cup {Some(ix) : ix \in Indexes}
    /\ race = NoRace
    /\ \E form \in FormData, wiki \in WikiOutcomes, web \in WebOutcomes, kb \in KBOutcomes :
        orders = [start |-> initial_state(form),
                  outs |-> [NoOuts EXCEPT !.wiki = wiki, !.web = web, !.kb = kb],
                  a |-> [applied |-> <<>>, state |-> initial_state(form), query |-> Empty],
                  b |-> [applied |-> <<>>, state |-> initial_state(form), query |-> Empty]]
    /\ runs = IdleRuns
    /\ workflow = "engine"
    /\ construction = NoConstruction
    /\ kb_files = {}
    /\ kb_alive = "alive"
    /\ kb_init = NoInit
    /\ kb_query = NoQuery
    /\ pc = "idle"
    /\ entry = "none"
    /\ tracer = FALSE
    /\ state = NoState
    /\ start_state = NoState
    /\ given = NoState
    /\ escaped = FALSE
    /\ trace = <<>>
    /\ failed = {}
    /\ calls = NoCalls
    /\ kb_returned = <<>>
    /\ llm_prompts = <<>>
    /\ llm_returned = <<>>
    /\ result = EmptyDict
    /\ rendered = <<>>

Rest == <<serpapi_wrapper, tracing_enabled, vector_store, race, runs, workflow, construction,
          kb_files, kb_alive, kb_init, kb_query, pc, entry, tracer, state, start_state,
          given, escaped, trace, failed, calls, kb_returned, llm_prompts, llm_returned,
          result, rendered>>

\* _research applied in order o: first in a, after _rag in b
OrderResearch(o) ==
    /\ orders[o].applied = IF o = "a" THEN <<>> ELSE <<"rag">>
    /\ orders' = [orders EXCEPT
                    ![o].state = research(orders[o].state, orders.outs.wiki, orders.outs.web),
                    ![o].applied = Append(@, "research")]
    /\ UNCHANGED Rest

\* _rag applied in order o: first in b, after _research in a
OrderRag(o) ==
    /\ orders[o].applied = IF o = "b" THEN <<>> ELSE <<"research">>
    /\ orders' = [orders EXCEPT
                    ![o].state = rag(orders[o].state, orders.outs.kb),
                    ![o].query = rag_query(orders[o].state),
                    ![o].applied = Append(@, "rag")]
    /\ UNCHANGED Rest

NextOrder ==
    \E o \in {"a", "b"} :
        \/ OrderResearch(o)
        \/ OrderRag(o)

SpecOrder == InitOrder /\ [][NextOrder]_vars

(***************************************************************************)
(* Request serving: once the knowledge base is constructed, submissions,   *)
(* direct queries and explicit initialize calls follow one another.        *)
(***************************************************************************)
InitServe ==
    /\ serpapi_wrapper = FALSE
    /\ tracing_enabled = FALSE
    /\ vector_store = None
    /\ race = NoRace
    /\ orders = NoOrders
    /\ runs = IdleRuns
    /\ workflow = "engine"
    /\ construction = NoConstruction
    /\ kb_files = {KBFiles[i] : i \in 1..Len(KBFiles)}
    /\ kb_alive = "constructing"
    /\ kb_init = NoInit
    /\ kb_query = NoQuery
    /\ pc = "idle"
    /\ entry = "none"
    /\ tracer = FALSE
    /\ state = NoState
    /\ start_state = NoState
    /\ given = NoState
    /\ escaped = FALSE
    /\ trace = <<>>
    /\ failed = {}
    /\ calls = NoCalls
    /\ kb_returned = <<>>
    /\ llm_prompts = <<>>
    /\ llm_returned = <<>>
    /\ result = EmptyDict
    /\ rendered = <<>>

\* a submission (of a request for either destination) is served by the constructed
\* engine
ServeSubmit ==
    /\ kb_alive = "alive"
    /\ Submit
    /\ state' \in {initial_state(form) : form \in ConcForms}

\* between two submissions: an explicit initialize call, a direct query
ServeInitialize == pc = "idle" /\ KBInitialize
ServeQuery == pc = "idle" /\ KBQuery

NextServe ==
    \/ KBConstruct
    \/ ServeInitialize
    \/ ServeQuery
    \/ ServeSubmit
    \/ Start
    \/ Research
    \/ Rag
    \/ PlanGeneration
    \/ Recommendation
    \/ ErrorHandler
    \/ Return
    \/ Render
    \/ NewPlan

SpecServe == InitServe /\ [][NextServe]_vars

(***************************************************************************)
(* An initialize call and a query running at once on the live knowledge    *)
(* base, each statement by statement; no lock is held by either.           *)
(***************************************************************************)
InitRace ==
    /\ serpapi_wrapper = FALSE
    /\ tracing_enabled = FALSE
    /\ vector_store \in {None, Some(FileChunks("kyoto.md"))}
    /\ race = NoRace
    /\ orders = NoOrders
    /\ runs = IdleRuns
    /\ workflow = "engine"
    /\ construction = NoConstruction
    /\ kb_files \in SUBSET {KBFiles[i] : i \in 1..Len(KBFiles)}
    /\ kb_alive = "alive"
    /\ kb_init = NoInit
    /\ kb_query = NoQuery
    /\ pc = "idle"
    /\ entry = "none"
    /\ tracer = FALSE
    /\ state = NoState
    /\ start_state = NoState
    /\ given = NoState
    /\ escaped = FALSE
    /\ trace = <<>>
    /\ failed = {}
    /\ calls = NoCalls
    /\ kb_returned = <<>>
    /\ llm_prompts = <<>>
    /\ llm_returned = <<>>
    /\ result = EmptyDict
    /\ rendered = <<>>

Apart == <<serpapi_wrapper, tracing_enabled, orders, runs, workflow, construction,
           kb_files, kb_alive, kb_init, kb_query, pc, entry, tracer, state, start_state,
           given, escaped, trace, failed, calls, kb_returned, llm_prompts, llm_returned,
           result, rendered>>

\* an initialize that publishes the index of the documents loaded so far
StoreAfter_incremental(statement, current, documents, built) ==
    IF statement = "assign" THEN built
    ELSE IF statement = "load" /\ documents # <<>> THEN Some(split_documents(documents))
    ELSE current

\* self.vector_store after a statement of initialize_knowledge_base: the only write
\* is the assignment of the index FAISS.from_documents returned
StoreAfter(statement, current, documents, built) ==
    IF statement = "assign" THEN built ELSE current

\* initialize_knowledge_base: makedirs and glob; it raises, finds nothing and
\* returns, or goes on to load what it found
RaceScan ==
    /\ race.init.pc = "idle"
    /\ \E scan \in ScanOutcomes :
        LET found == IF scan.ok THEN Discovered(kb_files) ELSE <<>>
        IN  race' = [race EXCEPT !.init = [pc |-> IF found = <<>> THEN "idle" ELSE "loading",
                                           called |-> TRUE, before |-> vector_store, remaining |-> found,
                                           documents |-> <<>>, chunks |-> <<>>,
                                           built |-> None]]
    /\ vector_store' = StoreAfter("scan", vector_store, <<>>, None)
    /\ UNCHANGED Apart

\* the loop body: one file is loaded, or fails to load and is skipped
RaceLoad ==
    /\ race.init.pc = "loading" /\ race.init.remaining # <<>>
    /\ \E loaded \in BOOLEAN :
        race' = [race EXCEPT !.init.remaining = Tail(@),
                             !.init.documents = IF loaded
                                                THEN Append(@, Head(race.init.remaining))
                                                ELSE @]
    /\ vector_store' = StoreAfter("load", vector_store, race'.init.documents, None)
    /\ UNCHANGED Apart

\* text_splitter.split_documents(documents)
RaceSplit ==
    /\ race.init.pc = "loading" /\ race.init.remaining = <<>>
    /\ race' = [race EXCEPT !.init.pc = "building",
                            !.init.chunks = split_documents(race.init.documents)]
    /\ vector_store' = StoreAfter("split", vector_store, race.init.documents, None)
    /\ UNCHANGED Apart

\* FAISS.from_documents(chunks, self.embeddings): the index, or a fault that ends
\* the call
RaceBuild ==
    /\ race.init.pc = "building"
    /\ \E embed \in EmbedOutcomes :
        LET built == from_documents(race.init.chunks, embed)
        IN  race' = [race EXCEPT !.init.pc = IF built.ok THEN "assigning" ELSE "idle",
                                 !.init.built = IF built.ok THEN built.val ELSE None]
    /\ vector_store' = StoreAfter("build", vector_store, race.init.documents, None)
    /\ UNCHANGED Apart

\* self.vector_store = <the index built>
RaceAssign ==
    /\ race.init.pc = "assigning"
    /\ race' = [race EXCEPT !.init.pc = "idle"]
    /\ vector_store' = StoreAfter("assign", vector_store, race.init.documents,
                                  race.init.built)
    /\ UNCHANGED Apart

\* query_knowledge_base: the test `self.vector_store is None`
RaceCheck ==
    /\ race.query.pc \in {"idle", "done"}
    /\ \E text \in QueryTexts, top_k \in {1, TopK} :
        race' = [race EXCEPT !.query =
                    [pc |-> IF vector_store = None THEN "done" ELSE "searching",
                     text |-> text, top_k |-> top_k, checked |-> vector_store,
                     searched |-> None,
                     hits |-> IF vector_store = None THEN <<SentinelHit>> ELSE <<>>]]
    /\ UNCHANGED <<Apart, vector_store>>

\* query_knowledge_base: the search on self.vector_store as it is now, inside try
RaceSearch ==
    /\ race.query.pc = "searching"
    /\ \E search \in IF vector_store = None THEN {Raise(<<"NoneType_has_no_attribute">>)}
                     ELSE SearchOutcomes(Ranked(vector_store[1], race.query.text),
                                         race.query.top_k) :
        race' = [race EXCEPT !.query.pc = "done",
                             !.query.searched = vector_store,
                             !.query.hits = IF search.ok
                                            THEN query_knowledge_base(vector_store, search)
                                            ELSE <<SearchErrorHit(search.val)>>]
    /\ UNCHANGED <<Apart, vector_store>>

NextRace ==
    \/ RaceScan
    \/ RaceLoad
    \/ RaceSplit
    \/ RaceBuild
    \/ RaceAssign
    \/ RaceCheck
    \/ RaceSearch

SpecRace == InitRace /\ [][NextRace]_vars

(***************************************************************************)
(* Properties.                                                             *)
(***************************************************************************)
\* generate_travel_plans has returned its payload
Returned == pc \in {"returned", "rendered"}

\* the graph run of generate_travel_plans is over: `state` is the final state
Final == entry = "generate_travel_plans" /\ pc \in {"END", "returned", "rendered"}

\* node n has been executed in this run
Ran(n) == \E i \in 1..Len(trace) : trace[i] = n

\* the fallback steps: the nodes whose failure is routed to the error handler
FallbackSteps == {"research", "plan_generation", "recommendation"}

\* the node executed at position i of the run was followed by node n (or n is next)
FollowedBy(i, n) ==
    IF i < Len(trace) THEN trace[i + 1] = n ELSE pc = n

\* C1: the payload is {travel_plans, additional_info} or {error}, and it has the
\* error key only when a fault escaped the graph into the except clause of
\* generate_travel_plans; a step failure caught inside the graph adds no error key.
C1_PayloadShape ==
    Returned =>
        /\ DOMAIN result \in {{"travel_plans", "additional_info"}, {"error"}}
        /\ "error" \in DOMAIN result => escaped

\* C1: a run in which a step failed inside the graph and no fault escaped it
C1_CaughtFailureReturned == Returned /\ failed # {} /\ ~escaped

\* C2: every payload has a non-empty travel plan, or a non-empty error and no
\* travel plan; never neither.
C2_PlanOrError ==
    Returned =>
        \/ "travel_plans" \in DOMAIN result /\ result["travel_plans"] # Empty
        \/ /\ "error" \in DOMAIN result /\ result["error"] # Empty
           /\ "travel_plans" \notin DOMAIN result

\* C2: a run in which the LLM returned the empty text for the plan and nothing failed
C2_EmptyPlanReturned ==
    Returned /\ failed = {} /\ ~escaped /\ state.travel_plan = Empty

\* C3: a failure of research, plan generation or recommendation stores an error
\* message, is followed by the error handler and by nothing else, and the error
\* handler is followed by END; no other node is reached on failure.
C3_FailureGoesToErrorHandler ==
    /\ \A i \in 1..Len(trace) :
        /\ (trace[i] \in FallbackSteps /\ trace[i] \in failed) =>
              /\ state.error # Empty
              /\ FollowedBy(i, "error_handler")
        /\ trace[i] = "error_handler" =>
              /\ i = Len(trace)
              /\ pc \in {"END", "returned", "rendered"}
              /\ i > 1 /\ trace[i - 1] \in failed \cap FallbackSteps
    /\ pc = "error_handler" => trace # <<>> /\ trace[Len(trace)] \in failed \cap FallbackSteps

\* C3: a run in which the recommendation failed, the error handler ran and END came
C3_FailureHandled ==
    /\ pc = "END"
    /\ "recommendation" \in failed
    /\ trace[Len(trace)] = "error_handler"

\* the text the LLM returned to the node at position i of the LLM calls
Generated(i) == llm_returned[i].val

SameFiveFields(s) ==
    {[s EXCEPT !.current_location = loc, !.research_done = done, !.rag_results = hits,
               !.travel_plan = plan, !.additional_info = info, !.next_step = step] :
        loc \in Locations, done \in BOOLEAN, hits \in {<<>>, <<SentinelHit>>},
        plan \in {Empty, <<"llm_text">>}, info \in {Empty, <<"llm_text">>},
        step \in {"error_handler", "end"}}

\* C5, in a state: once the error handler has run, travel_plan is a non-empty text
\* containing the error message, the destination, duration, budget and purpose and the
\* four advice lines, next_step is end, and any state with the same five fields gets
\* the same plan; the handler can always run; a failed generation ends this way.
C5_FallbackState ==
    /\ Ran("error_handler") =>
        /\ state.travel_plan # Empty
        /\ Contains(state.travel_plan, state.error)
        /\ Contains(state.travel_plan, state.destination)
        /\ Contains(state.travel_plan, state.duration)
        /\ Contains(state.travel_plan, state.budget)
        /\ Contains(state.travel_plan, state.purpose)
        /\ Len(AdviceLines) = 4
        /\ \A i \in 1..Len(AdviceLines) : Contains(state.travel_plan, <<AdviceLines[i]>>)
        /\ state.next_step = "end"
        /\ \A other \in SameFiveFields(state) :
              error_handler(other).travel_plan = state.travel_plan
    /\ pc = "error_handler" => ENABLED ErrorHandler
    /\ (Final /\ "plan_generation" \in failed) => Ran("error_handler")

\* C5, in a step: the error handler makes no external call, does not fail, goes to END
C5_FallbackStep ==
    pc = "error_handler" =>
        /\ calls' = calls
        /\ failed' = failed
        /\ llm_prompts' = llm_prompts
        /\ kb_returned' = kb_returned
        /\ pc' = "END"

\* C5: whenever the error handler runs it calls nothing, cannot fail, and sets
\* travel_plan to the fallback, a function of error, destination, duration, budget and
\* purpose that contains them and the four advice lines, and next_step to end.
C5_ErrorHandlerFallback == []C5_FallbackState /\ [][C5_FallbackStep]_vars

\* C5: a finished run in which the plan generation failed and the error handler ran
C5_GenerationFailureHandled ==
    /\ Final
    /\ failed = {"plan_generation"}
    /\ trace[Len(trace)] = "error_handler"
    /\ state.error # Empty

\* C6: after a failure of research, generation or recommendation the page shows the
\* fallback travel plan.
C6_FallbackShown ==
    (pc = "rendered" /\ failed \cap FallbackSteps # {} /\ ~escaped) =>
        \E i \in 1..Len(rendered) :
            rendered[i].widget = "plan" /\ rendered[i].text = state.travel_plan

\* C6: a page rendered after the research failed
C6_FailureRendered == pc = "rendered" /\ "research" \in failed /\ ~escaped

\* C7: generate_travel_plans always returns: a fault that escapes the graph run
\* becomes a payload holding an error message and nothing else.
C7_EscapedFaultBecomesError ==
    /\ (entry = "generate_travel_plans" /\ pc \in {"END", "fault"}) => ENABLED Return
    /\ (Returned /\ escaped) =>
        /\ DOMAIN result = {"error"}
        /\ result["error"] # Empty

\* C7: a payload returned after a fault escaped a graph run whose steps all succeeded
C7_FaultEscaped == Returned /\ escaped /\ failed = {} /\ state.travel_plan # Empty

\* C8: with research_done true at START the first node is plan generation and
\* neither research nor retrieval runs; with research_done false it is research.
C8_StartEdge ==
    (entry # "none" /\ pc # "START") =>
        /\ start_state.research_done =>
              /\ IF trace = <<>> THEN pc = "plan_generation" ELSE trace[1] = "plan_generation"
              /\ \A i \in 1..Len(trace) : trace[i] \notin {"research", "rag"}
              /\ pc \notin {"research", "rag"}
        /\ ~start_state.research_done =>
              IF trace = <<>> THEN pc = "research" ELSE trace[1] = "research"

\* C8: a graph run started with research_done true that reached END
C8_ResearchSkipped ==
    /\ entry = "invoke"
    /\ start_state.research_done
    /\ pc = "END"
    /\ trace = <<"plan_generation", "recommendation">>

WikipediaRaised == "research" \in failed /\ calls.web_search = 0

\* C10: if wikipedia raises, the run is research, error handler, END: no knowledge
\* base query, no LLM call; the final travel plan is the fallback with the
\* destination and the four advice lines, and additional_info stays empty.
C10_WikipediaFailure ==
    WikipediaRaised =>
        /\ trace \in {<<"research">>, <<"research", "error_handler">>}
        /\ trace = <<"research">> => pc = "error_handler"
        /\ calls.knowledge_base = 0 /\ calls.llm = 0
        /\ kb_returned = <<>> /\ llm_prompts = <<>>
        /\ state.additional_info = Empty
        /\ Final =>
              /\ trace = <<"research", "error_handler">>
              /\ Contains(state.travel_plan, state.destination)
              /\ Contains(state.travel_plan, AdviceLines)
              /\ Contains(state.travel_plan, <<"research_error: ">>)

\* C10: a finished run in which wikipedia raised while web search is configured
C10_WikipediaFailedRun == Final /\ WikipediaRaised /\ serpapi_wrapper /\ pc = "END"

\* the research node ran in this run and did not raise
ResearchSucceeded == Ran("research") /\ "research" \notin failed

\* C11: without a web-search provider the research never calls web search and
\* succeeds whenever wikipedia does: research_results holds the wikipedia entry only,
\* research_done is true, error stays empty and the next node is rag; with the
\* provider configured and both succeeding, research_results holds both entries.
C11_WebSearchOptional ==
    /\ ~serpapi_wrapper => calls.web_search = 0
    /\ ResearchSucceeded =>
        /\ state.research_done
        /\ trace[1] = "research" /\ FollowedBy(1, "rag")
        /\ pc = "rag" => state.error = Empty
        /\ state.research_results["wikipedia"] = <<"wikipedia_text">>
        /\ IF serpapi_wrapper
           THEN /\ DOMAIN state.research_results = {"wikipedia", "web_search"}
                /\ state.research_results["web_search"] = <<"web_search_text">>
                /\ calls.web_search = 1
           ELSE DOMAIN state.research_results = {"wikipedia"}

\* C11: the research succeeded without a web-search provider and rag is next
C11_ResearchWithoutWebSearch ==
    /\ ~serpapi_wrapper
    /\ pc = "rag"
    /\ ResearchSucceeded
    /\ calls.wikipedia = 1

HitsFollowSearch ==
    (kb_query.before # None /\ kb_query.search.ok) =>
        /\ Len(kb_query.hits) = Len(kb_query.search.val)
        /\ \A i \in 1..Len(kb_query.hits) :
            /\ kb_query.hits[i] = FormatHit(kb_query.search.val[i])
            /\ \A j \in i..Len(kb_query.hits) :
                kb_query.hits[i].similarity_score <= kb_query.hits[j].similarity_score

C14_EmptyDirectoryUnsetsIndex ==
    (kb_init.called /\ kb_init.scan_ok /\ kb_init.found = <<>>) =>
        /\ ~kb_init.raised
        /\ vector_store = None
        /\ kb_query.called => kb_query.hits = <<SentinelHit>>

C14_StaleHitReturned ==
    /\ kb_init.called /\ kb_init.scan_ok /\ kb_init.found = <<>>
    /\ kb_init.before # None
    /\ kb_query.called /\ Len(kb_query.hits) > 0
    /\ kb_query.hits[1].source = <<"kyoto.md">>

\* C15: an initialize call that finds files, whatever subset of them fails to
\* load, returns without raising (the directory scan and the embedding backend
\* working) and leaves the index of exactly the documents that loaded.
C15_LoadFailuresSkipped ==
    (kb_init.called /\ kb_init.scan_ok /\ kb_init.embed_ok /\ kb_init.found # <<>>) =>
        /\ ~kb_init.raised
        /\ vector_store = Some(split_documents(LoadedDocuments(kb_init.found, kb_init.loaded)))

C15_AllLoadsFailed ==
    /\ kb_init.called /\ kb_init.scan_ok /\ kb_init.embed_ok
    /\ Len(kb_init.found) = 2 /\ kb_init.loaded = {}
    /\ kb_init.raised

\* C16: construction is all-or-nothing: the engine exists exactly when the OpenAI
\* key is present and every step of the constructor (LLM, Wikipedia, SerpAPI,
\* embedding model, initial index build, graph) succeeded; a missing key is
\* found before the constructor is called; and when no engine exists the
\* application shows the failure and generate_travel_plans is never entered.
C16_AllOrNothing ==
    /\ construction.called <=> workflow # "uncached"
    /\ construction.called =>
        /\ workflow \in {"None", "engine"}
        /\ workflow = "engine" <=> (construction.key /\ construction.steps_ok)
        /\ construction.attempted <=> construction.key
    /\ workflow = "None" =>
        /\ kb_alive = "none" /\ vector_store = None /\ ~serpapi_wrapper
        /\ pc = "idle" /\ entry = "none" /\ state = NoState
        /\ trace = <<>> /\ calls = NoCalls /\ result = EmptyDict
        /\ rendered = <<"workflow_initialization_failed">>
    /\ entry # "none" => workflow = "engine"

C16_ConstructorRaised ==
    /\ construction.called /\ construction.attempted /\ ~construction.steps_ok
    /\ workflow = "None"
    /\ rendered = <<"workflow_initialization_failed">>

\* the tokens each node may write, as the routing table lists them
RoutingTable(node) ==
    CASE node = "research" -> {"rag", "error_handler"}
      [] node = "rag" -> {"plan_generation"}
      [] node = "plan_generation" -> {"recommendation", "error_handler"}
      [] node = "recommendation" -> {"end", "error_handler"}

RoutedNodes == {"research", "rag", "plan_generation", "recommendation"}

C20_NoRetries ==
    /\ \A i, j \in 1..Len(trace) : trace[i] = trace[j] => i = j
    /\ Len(trace) <= 5
    /\ \A i \in 1..Len(trace) : trace[i] \in Nodes
    /\ calls.wikipedia <= 1 /\ calls.web_search <= 1 /\ calls.knowledge_base <= 1
    /\ calls.wikipedia = (IF Ran("research") THEN 1 ELSE 0)
    /\ calls.knowledge_base = (IF Ran("rag") THEN 1 ELSE 0)
    /\ calls.llm <= 2
    /\ calls.llm = (IF Ran("plan_generation") THEN 1 ELSE 0)
                       + (IF Ran("recommendation") THEN 1 ELSE 0)
    /\ Len(llm_prompts) = calls.llm /\ Len(kb_returned) = calls.knowledge_base

\* C20: every workflow run terminates at END and performs no retries.
C20_TerminatesWithoutRetries ==
    /\ []C20_NoRetries
    /\ (pc = "START") ~> (pc = "END")

C20_LongestRun ==
    /\ pc = "END" /\ Len(trace) = 5
    /\ calls = [wikipedia |-> 1, web_search |-> 1, knowledge_base |-> 1, llm |-> 2]

\* C18: whatever the interleaving of two calls on the one engine, each call's
\* final state and result are those of the call run alone on its own request with
\* the answers its own external calls got.
C18_RunsIndependent ==
    \A r \in Requests :
        LET alone == RunAlone("START", runs[r].start, runs[r].outs)
        IN  /\ runs[r].pc \in {"END", "fault", "returned"} =>
                /\ runs[r].state = alone.state
                /\ runs[r].state.destination = runs[r].start.destination
                /\ runs[r].state.current_location = runs[r].start.current_location
            /\ runs[r].pc = "returned" =>
                /\ runs[r].result = ResultOf(alone)
                /\ alone.pc = "END"

C18_InterleavedRunsReturned ==
    /\ \A r \in Requests : runs[r].pc = "returned" /\ runs[r].overlapped
    /\ runs[1].start.destination # runs[2].start.destination
    /\ "error" \in DOMAIN runs[1].result
    /\ "error" \notin DOMAIN runs[2].result

\* the message of the step of this run that failed last (the nodes run in the order
\* research, rag, plan_generation, recommendation)
LastFailureMessages ==
    IF "recommendation" \in failed
    THEN {<<"recommendation_error: ">> \o llm_returned[2].val}
    ELSE IF "plan_generation" \in failed
    THEN {<<"plan_generation_error: ">> \o llm_returned[1].val}
    ELSE IF "rag" \in failed
    THEN {<<"knowledge_base_error: ">> \o kb_returned[1].val}
    ELSE {<<"research_error: ">> \o e : e \in ExceptionTexts}

\* C21, in a state: error is empty exactly when no step of the run has failed, and
\* otherwise it is the message of the step that failed last
C21_ErrorState ==
    /\ state.error = Empty <=> failed = {}
    /\ failed # {} => state.error \in LastFailureMessages

\* C21, in a step: a node that does not fail leaves error as it was
C21_ErrorKept ==
    (Len(trace') = Len(trace) + 1 /\ failed' = failed) => state'.error = state.error

\* C21: error is empty if and only if no step of this run has failed; when
\* non-empty it is the message of the most recently failed step; no successful
\* step clears or changes it.
C21_ErrorIsLastFailure == []C21_ErrorState /\ [][C21_ErrorKept]_vars

\* C21: a generation failure after a degraded retrieval has overwritten the message
C21_RetrievalMessageOverwritten ==
    /\ failed = {"rag", "plan_generation"}
    /\ Ran("error_handler")
    /\ kb_returned[1].val = <<"timeout">> /\ llm_returned[1].val = Empty
    /\ state.error = <<"plan_generation_error: ">>

\* node n ran in this run and did not fail
Succeeded(n) == Ran(n) /\ n \notin failed

\* C22: travel_plan is non-empty only if the plan generation has succeeded or the
\* error handler has run, additional_info is non-empty only if the recommendation
\* has succeeded, and a run that passes through the error handler has an empty
\* additional_info.
C22_TextsOnlyFromTheirSteps ==
    /\ state.travel_plan # Empty => (Succeeded("plan_generation") \/ Ran("error_handler"))
    /\ state.additional_info # Empty => Succeeded("recommendation")
    /\ Ran("error_handler") => state.additional_info = Empty

\* C22: a run ended in the error handler after the recommendation failed
C22_HandledAfterRecommendation ==
    /\ Final /\ pc = "END"
    /\ Succeeded("plan_generation") /\ llm_returned[1].val = <<"llm_text">>
    /\ "recommendation" \in failed /\ Ran("error_handler")
    /\ state.additional_info = Empty /\ state.travel_plan # Empty

\* the trip-request fields of the planning state
RequestFields == {"current_location", "destination", "budget", "duration", "purpose"}

\* the fields each node may change
OwnFields(node) ==
    CASE node = "research" -> {"research_done", "research_results", "error", "next_step"}
      [] node = "rag" -> {"rag_results", "error", "next_step"}
      [] node = "plan_generation" -> {"travel_plan", "error", "next_step"}
      [] node = "recommendation" -> {"additional_info", "error", "next_step"}
      [] node = "error_handler" -> {"travel_plan", "next_step"}

\* C23, in a state: the trip-request fields are those the run was started with
C23_RequestKept == \A f \in RequestFields : state[f] = start_state[f]

\* C23, in a step: a node changes no field but its own, and the dict it was given
\* is afterwards as it was given
C23_NodeFrame ==
    Len(trace') = Len(trace) + 1 =>
        LET node == trace'[Len(trace')]
        IN  /\ DOMAIN state' = DOMAIN state
            /\ OwnFields(node) \cap RequestFields = {}
            /\ \A f \in DOMAIN state \ OwnFields(node) : state'[f] = state[f]
            /\ given' = state

\* C23: the trip-request fields are unchanged by every node on every path, each
\* node changes only its own fields, and a node returns a new state and leaves the
\* state it was given unmodified.
C23_FrameOfNodes == []C23_RequestKept /\ [][C23_NodeFrame]_vars

\* C23: the error handler has run on a state with an error; it got a dict without
\* a plan and returned one with the fallback plan
C23_ErrorHandlerReturned ==
    /\ pc = "END" /\ trace = <<"research", "rag", "plan_generation", "error_handler">>
    /\ given.travel_plan = Empty /\ given.next_step = "error_handler"
    /\ state.travel_plan # Empty /\ state.error = given.error
    /\ state.destination = <<"Kyoto">>

\* C24: rag_results never has more than 3 hits, and once the retrieval has
\* succeeded it is, element for element and in the same order, what the
\* knowledge-base query (asked for the top 3) returned.
C24_RetrievalVerbatim ==
    /\ Len(state.rag_results) <= 3
    /\ TopK = 3
    /\ Succeeded("rag") =>
        /\ Len(kb_returned) = 1 /\ kb_returned[1].ok
        /\ Len(state.rag_results) = Len(kb_returned[1].val)
        /\ \A i \in 1..Len(state.rag_results) : state.rag_results[i] = kb_returned[1].val[i]
    /\ ~Ran("rag") => state.rag_results = <<>>

\* C24: a finished run whose retrieval got the top 3 of an index of 4 chunks
C24_TopThreeStored ==
    /\ pc = "END" /\ Succeeded("rag")
    /\ vector_store # None /\ Len(vector_store[1]) = 4
    /\ Len(state.rag_results) = 3
    /\ state.rag_results[3].content = Chunk(3).page_content

\* the knowledge-base query of this run returned the uninitialized sentinel
SentinelReturned == Succeeded("rag") /\ kb_returned[1] = Ok(<<SentinelHit>>)

\* C25, the routing part: the sentinel is no error and the run goes on to the plan
\* generation
C25_SentinelIsNoError ==
    SentinelReturned =>
        /\ trace[2] = "rag" /\ FollowedBy(2, "plan_generation")
        /\ failed = {} => state.error = Empty
        /\ pc = "plan_generation" => state.error = Empty

\* C25: when the query returns the sentinel, error stays empty, the run proceeds
\* to the plan generation, and the prompt handed to the LLM has the knowledge
\* section of an empty rag_results: the sentinel's text is not in it.
C25_SentinelIsNoKnowledge ==
    /\ C25_SentinelIsNoError
    /\ (SentinelReturned /\ Len(llm_prompts) >= 1) =>
        /\ llm_prompts[1] = plan_prompt([state EXCEPT !.rag_results = <<>>])
        /\ ~Contains(llm_prompts[1], SentinelHit.content)

\* C25: the plan prompt of a run on an unset index carries the sentinel's text
C25_SentinelInPrompt ==
    /\ SentinelReturned /\ vector_store = None /\ failed = {}
    /\ Len(llm_prompts) >= 1
    /\ Contains(llm_prompts[1], <<"internal_knowledge_1">> \o SentinelHit.content)

\* C26: every hit a knowledge-base query returns, on a built index, on an unset
\* index and after a failing search, carries the three fields content, source and
\* similarity_score.
C26_HitsHaveThreeFields ==
    kb_query.called =>
        \A i \in 1..Len(kb_query.hits) :
            DOMAIN kb_query.hits[i] = {"content", "source", "similarity_score"}

\* C26: a query on a built index whose search raised returned a hit without score
C26_ErrorHitWithoutScore ==
    /\ kb_query.called /\ kb_query.before # None /\ ~kb_query.search.ok
    /\ Len(kb_query.hits) = 1
    /\ DOMAIN kb_query.hits[1] = {"content", "source"}

\* node n has been applied in order o
Applied(o, n) == \E i \in 1..Len(orders[o].applied) : orders[o].applied[i] = n

\* both nodes of the two orders succeed with the answers drawn
BothSucceed ==
    /\ ~research_raised(orders.outs.wiki, orders.outs.web)
    /\ orders.outs.kb.ok

\* C27: the retrieval's query and result are the same before and after the
\* research, the research's result is the same before and after the retrieval, and
\* when both succeed the two orders give the same research_results, research_done,
\* rag_results and error, hence the same plan prompt.
C27_OrderIndependent ==
    /\ (Applied("a", "rag") /\ Applied("b", "rag")) =>
        /\ orders.a.query = orders.b.query
        /\ orders.a.state.rag_results = orders.b.state.rag_results
    /\ (Applied("a", "research") /\ Applied("b", "research")) =>
        /\ orders.a.state.research_results = orders.b.state.research_results
        /\ orders.a.state.research_done = orders.b.state.research_done
    /\ (BothSucceed /\ Len(orders.a.applied) = 2 /\ Len(orders.b.applied) = 2) =>
        /\ orders.a.state.error = orders.b.state.error
        /\ plan_prompt(orders.a.state) = plan_prompt(orders.b.state)
        /\ \A f \in DOMAIN orders.start \ {"next_step"} :
            orders.a.state[f] = orders.b.state[f]

\* C27: both orders are complete, both nodes succeeded and retrieved something
C27_BothOrdersDone ==
    /\ BothSucceed /\ serpapi_wrapper
    /\ orders.a.applied = <<"research", "rag">> /\ orders.b.applied = <<"rag", "research">>
    /\ Len(orders.b.state.rag_results) = 3 /\ orders.a.state.research_done
    /\ orders.a.state.next_step # orders.b.state.next_step

\* C28, in a step: a step of a generate_travel_plans call or a query leaves the
\* vector store as it is; a step that changes it is an initialize call that did
\* not raise, made by the constructor or explicitly between two submissions
C28_IndexStep ==
    /\ (pc' # pc \/ trace' # trace \/ calls' # calls \/ result' # result
            \/ (kb_query'.called /\ kb_query' # kb_query)) =>
        vector_store' = vector_store
    /\ vector_store' # vector_store =>
        /\ kb_init'.called /\ ~kb_init'.raised
        /\ kb_init'.before = vector_store
        /\ kb_query' = NoQuery
        /\ pc = "idle" /\ pc' = "idle"

\* C28: the vector store is read-only during request serving: no
\* generate_travel_plans call and no query, successful or failing, changes it;
\* only the construction and an explicit initialize call write it.
C28_IndexReadOnly == [][C28_IndexStep]_vars

\* C28: a run whose retrieval failed has been served by an index that an explicit
\* initialize call had rebuilt, and the index is as that call left it
C28_ServedAfterRebuild ==
    /\ pc = "rendered" /\ "rag" \in failed
    /\ kb_init.called /\ kb_init.before # None /\ ~kb_init.raised
    /\ vector_store = Some(FileChunks("tokyo.md"))
    /\ kb_query.called /\ ~kb_query.search.ok

\* C29, in a state: while an initialize call runs the vector store is the one the
\* call found, until the call's last statement replaces it by the index of all
\* the documents it loaded; and a query that found the store set still finds it
\* set when it searches
C29_CompleteIndex ==
    /\ race.init.pc \in {"loading", "building", "assigning"} =>
        vector_store = race.init.before
    /\ \/ ~race.init.called
       \/ vector_store = race.init.before
       \/ /\ race.init.pc = "idle" /\ race.init.remaining = <<>>
          /\ vector_store = Some(split_documents(race.init.documents))
          /\ race.init.documents # <<>>
    /\ race.query.pc = "searching" => vector_store # None
    /\ (race.query.pc = "done" /\ race.query.checked # None) =>
        race.query.searched # None

\* C29, in a step: the vector store changes only in the assignment that ends an
\* initialize call, to the index built from everything loaded; the search runs on
\* the store as it is at that moment and its hits are chunks of that store
C29_SingleStep ==
    /\ vector_store' # vector_store =>
        /\ race.init.pc = "assigning" /\ race'.init.pc = "idle"
        /\ race.init.remaining = <<>>
        /\ vector_store' = Some(split_documents(race.init.documents))
        /\ race.init.documents # <<>>
    /\ (race.query.pc = "searching" /\ race'.query.pc = "done") =>
        /\ race'.query.searched = vector_store
        /\ \A i \in 1..Len(race'.query.hits) :
            "similarity_score" \in DOMAIN race'.query.hits[i] =>
                \E j \in 1..Len(vector_store[1]) :
                    race'.query.hits[i].content = vector_store[1][j].page_content

\* C29: a query interleaved with a running initialize observes the complete
\* previous index (or the unset state) or the complete new index, never a partial
\* one: the index reference is replaced in a single step after loading, chunking
\* and embedding, and never goes from set to unset between a query's test and
\* its search.
C29_QueryDuringInitialize == []C29_CompleteIndex /\ [][C29_SingleStep]_vars

\* C29: a query tested the old index and searched the new one
C29_IndexReplacedMidQuery ==
    /\ race.query.pc = "done"
    /\ race.query.checked = Some(FileChunks("kyoto.md"))
    /\ race.query.searched = Some(FileChunks("tokyo.md"))
    /\ Len(race.query.hits) = 1 /\ race.query.hits[1].source = <<"tokyo.md">>

\* C30: an initialize call that raises leaves the vector store it found, and the
\* queries after it return the hits of that store.
C30_FailedInitializeKeepsIndex ==
    (kb_init.called /\ kb_init.raised) =>
        /\ vector_store = kb_init.before
        /\ kb_query.called =>
            /\ kb_query.before = kb_init.before
            /\ kb_query.hits \in
                {query_knowledge_base(kb_init.before, search) :
                    search \in IF kb_init.before = None THEN {Ok(<<>>)}
                               ELSE SearchOutcomes(Ranked(kb_init.before[1], kb_query.text),
                                                   kb_query.top_k)}

\* C30: a re-initialize failed in the index build and a later query was answered
\* from the index built before
C30_QueryAfterFailedRebuild ==
    /\ kb_alive = "alive"
    /\ kb_init.called /\ kb_init.raised /\ kb_init.scan_ok /\ ~kb_init.embed_ok
    /\ kb_init.before = Some(FileChunks("kyoto.md")) /\ kb_init.loaded = {"tokyo.md"}
    /\ kb_query.called /\ kb_query.search.ok /\ kb_query.top_k = 1
    /\ kb_query.hits[1].source = <<"kyoto.md">>

\* C31: when the recommendation fails after the plan generation succeeded, the error
\* handler runs and replaces the generated itinerary: the final travel_plan is the
\* fallback plan holding the recommendation's error message, not the text the LLM
\* produced, and additional_info is empty.
C31_FallbackReplacesItinerary ==
    (Final /\ Succeeded("plan_generation") /\ "recommendation" \in failed) =>
        /\ Ran("error_handler") /\ trace[Len(trace)] = "error_handler"
        /\ state.error = <<"recommendation_error: ">> \o llm_returned[2].val
        /\ state.travel_plan = fallback_plan(state)
        /\ state.travel_plan[1] = "fallback_title"
        /\ Contains(state.travel_plan, <<"recommendation_error: ">> \o llm_returned[2].val)
        /\ state.travel_plan # llm_returned[1].val
        /\ llm_returned[1].val # Empty => ~Contains(state.travel_plan, llm_returned[1].val)
        /\ state.additional_info = Empty
        /\ (Returned /\ ~escaped) =>
              /\ result["travel_plans"] = state.travel_plan
              /\ result["additional_info"] = Empty

\* C31: a call returned the fallback plan although the LLM had produced an itinerary
C31_ItineraryLost ==
    /\ Returned /\ ~escaped
    /\ trace = <<"research", "rag", "plan_generation", "recommendation", "error_handler">>
    /\ failed = {"recommendation"}
    /\ llm_returned = <<Ok(<<"llm_text">>), Raise(<<"timeout">>)>>
    /\ result["travel_plans"][1] = "fallback_title"
    /\ ~Contains(result["travel_plans"], <<"llm_text">>)

\* C32, in a state: research_done is true exactly when the research has succeeded
\* in this run or it was true in the state the run started from; after a failed
\* research, research_results and research_done are those of the start state (empty
\* and false for a request of generate_travel_plans)
C32_ResearchState ==
    /\ state.research_done <=> (Succeeded("research") \/ start_state.research_done)
    /\ "research" \in failed =>
        /\ state.research_results = start_state.research_results
        /\ state.research_done = start_state.research_done
        /\ entry = "generate_travel_plans" =>
              state.research_results = EmptyDict /\ ~state.research_done
    /\ state.research_results # start_state.research_results => Succeeded("research")

\* C32, in a step: a research step in which a provider fails leaves research_results
\* and research_done as they were
C32_ResearchStep ==
    (pc = "research" /\ "research" \in failed') =>
        /\ state'.research_results = state.research_results
        /\ state'.research_done = state.research_done

\* C32: the research is all-or-nothing: when any configured provider fails, also the
\* web search after a successful wikipedia lookup, research_results and research_done
\* keep their values from before the step and no partial result is stored;
\* research_done is true if and only if the research has succeeded in this run or it
\* was true at START.
C32_ResearchAllOrNothing == []C32_ResearchState /\ [][C32_ResearchStep]_vars

\* C32: the web search failed after wikipedia had answered, on a state that already
\* held research results
C32_WebSearchFailedAfterWikipedia ==
    /\ serpapi_wrapper
    /\ trace = <<"research">> /\ "research" \in failed
    /\ calls.wikipedia = 1 /\ calls.web_search = 1
    /\ state.error = <<"research_error: ", "timeout">>
    /\ start_state.research_results # EmptyDict
    /\ state.research_results = start_state.research_results
    /\ ~state.research_done

\* the answers of query_knowledge_base to a similarity search that raised
SearchErrorAnswers == {<<SearchErrorHit(e)>> : e \in ExceptionTexts}

\* the knowledge-base query of this run was answered after its search had raised
SearchErrorReturned ==
    /\ Ran("rag") /\ vector_store # None
    /\ kb_returned[1].ok /\ kb_returned[1].val \in SearchErrorAnswers

\* C33: query_knowledge_base turns a failing similarity search on a built index into
\* exactly one hit whose content is the error text; the RAG node then takes its
\* success path: it has not failed, error stays empty, rag_results holds that one
\* hit instead of the empty list, the plan generation is next, and the plan prompt
\* carries the error text as internal knowledge entry 1.
C33_SearchFaultBecomesHit ==
    /\ vector_store # None =>
          \A e \in ExceptionTexts :
              LET hits == query_knowledge_base(vector_store, Raise(e))
              IN  /\ Len(hits) = 1
                  /\ hits[1].content = <<"knowledge_base_search_error: ">> \o e
                  /\ Ok(hits) \in KBOutcomes
    /\ SearchErrorReturned =>
        /\ "rag" \notin failed
        /\ trace[2] = "rag" /\ FollowedBy(2, "plan_generation")
        /\ pc = "plan_generation" => state.error = Empty
        /\ state.error = Empty <=> failed = {}
        /\ state.rag_results = kb_returned[1].val
        /\ Len(state.rag_results) = 1 /\ state.rag_results # <<>>
        /\ Len(llm_prompts) >= 1 =>
              Contains(llm_prompts[1],
                       <<"internal_knowledge_1">> \o state.rag_results[1].content)

\* C33: a run whose similarity search timed out went on without an error and asked
\* the LLM for a plan with the error text as knowledge
C33_SearchErrorInPrompt ==
    /\ SearchErrorReturned /\ failed = {}
    /\ state.error = Empty
    /\ state.rag_results = <<SearchErrorHit(<<"timeout">>)>>
    /\ Len(llm_prompts) >= 1
    /\ Contains(llm_prompts[1],
                <<"internal_knowledge_1", "knowledge_base_search_error: ", "timeout">>)

\* C34, in a state: the graph run of every generate_travel_plans call starts from a
\* state with research_done false and research_results, rag_results, travel_plan,
\* additional_info and error empty, whatever the calls before it have left
C34_FreshState ==
    \A r \in Requests :
        runs[r].pc # "idle" =>
            /\ ~runs[r].start.research_done
            /\ runs[r].start.research_results = EmptyDict
            /\ runs[r].start.rag_results = <<>>
            /\ runs[r].start.travel_plan = Empty
            /\ runs[r].start.additional_info = Empty
            /\ runs[r].start.error = Empty
            /\ \E form \in FormData : runs[r].start = initial_state(form)
            /\ runs[r].pc = "START" =>
                  /\ runs[r].state = runs[r].start
                  /\ should_research(runs[r].state) = "research"

\* C34, in a step: the edge out of START leads to RESEARCH, not to PLAN_GENERATION
C34_StartStep ==
    \A r \in Requests :
        (runs[r].pc = "START" /\ runs'[r].pc # "START") =>
            /\ runs'[r].pc = "research"
            /\ runs'[r].state = runs[r].start

\* C34: every run started through generate_travel_plans begins with research_done
\* false and empty research_results, rag_results, travel_plan, additional_info and
\* error, so RESEARCH is the first node executed and the edge from START to
\* PLAN_GENERATION is never taken; nothing of a previous request's state is carried
\* into the next one.
C34_EveryRunStartsFresh == []C34_FreshState /\ [][C34_StartStep]_vars

\* C34: a call made after another call had returned with its research done and a
\* plan written has reached RESEARCH on a fresh state
C34_SecondRequestFresh ==
    /\ runs[1].pc = "returned" /\ ~runs[1].overlapped
    /\ runs[1].state.research_done /\ runs[1].state.research_results # EmptyDict
    /\ runs[1].state.travel_plan # Empty
    /\ runs[2].pc = "research" /\ ~runs[2].overlapped
    /\ runs[2].state = runs[2].start
    /\ ~runs[2].state.research_done /\ runs[2].state.research_results = EmptyDict

====
